---- MODULE Spec2Model ----
(***************************************************************************)
(* State-machine model of the STM32 RIF resource-isolation drivers of the  *)
(* OP-TEE platform layer: the RIF primitive library (stm32_rif.c), the     *)
(* RIFSC controller (stm32_rifsc.c) and the RISAF memory-region engine     *)
(* (stm32_risaf.c).  Registers are modelled as the integers the hardware   *)
(* holds; every register access of the C code is one read or one write.    *)
(***************************************************************************)
EXTENDS Integers, Sequences, FiniteSets, TLC

(***************************************************************************)
(* TEE_Result codes returned by the drivers.                               *)
(***************************************************************************)
TEE_SUCCESS == "TEE_SUCCESS"
TEE_ERROR_ACCESS_DENIED == "TEE_ERROR_ACCESS_DENIED"
TEE_ERROR_BAD_PARAMETERS == "TEE_ERROR_BAD_PARAMETERS"
TEE_ERROR_GENERIC == "TEE_ERROR_GENERIC"

(***************************************************************************)
(* Bit arithmetic on register words (util.h: BIT, GENMASK_32; C's & | ~).  *)
(***************************************************************************)
BIT(n) == 2 ^ n

GENMASK_32(h, l) == 2 ^ (h + 1) - 2 ^ l

RECURSIVE BitAnd(_, _)
BitAnd(a, b) ==
    IF a = 0 \/ b = 0 THEN 0
    ELSE (a % 2) * (b % 2) + 2 * BitAnd(a \div 2, b \div 2)

BitOr(a, b) == a + b - BitAnd(a, b)

BitClr(a, m) == a - BitAnd(a, m)

TestBit(w, n) == (w \div (2 ^ n)) % 2 = 1

(***************************************************************************)
(* stm32_rif.h register fields.                                            *)
(***************************************************************************)
_CIDCFGR_CFEN == 1

_CIDCFGR_SEMEN == 2

_CIDCFGR_SCID_SHIFT == 4

_CIDCFGR_SEMWL_SHIFT == 16

_CIDCFGR_SEMWL(x) == BIT(_CIDCFGR_SEMWL_SHIFT + x)

_SEMCR_MUTEX == 1

_SEMCR_SEMCID_SHIFT == 4

_SEMCR_SEMCID_MASK == GENMASK_32(6, 4)

MAX_CID_SUPPORTED == 7

\* stm32_hpdma.c: the nb_cid_supp the HPDMA driver passes.
HPDMA_NB_MAX_CID_SUPPORTED == 3

\* The compartment OP-TEE runs as (dt-bindings RIF_CID1).
RIF_CID1 == 1

\* sizeof(nb_cid_supp) * 8 - __builtin_clz(nb_cid_supp | 1) - 1
RECURSIVE msb_nb_cid_supp(_)
msb_nb_cid_supp(nb) == IF nb < 2 THEN 0 ELSE 1 + msb_nb_cid_supp(nb \div 2)

\* scid_mask = GENMASK_32(_CIDCFGR_SCID_SHIFT + msb_nb_cid_supp, _CIDCFGR_SCID_SHIFT)
scid_mask(nb) ==
    GENMASK_32(_CIDCFGR_SCID_SHIFT + msb_nb_cid_supp(nb), _CIDCFGR_SCID_SHIFT)

\* (reg & scid_mask) >> _CIDCFGR_SCID_SHIFT
ReadScid(reg, nb) == BitAnd(reg, scid_mask(nb)) \div BIT(_CIDCFGR_SCID_SHIFT)

(***************************************************************************)
(* The hardware side of a SEMCR register.  A write with MUTEX set by       *)
(* compartment cid takes a free semaphore if cid may take it and is        *)
(* ignored otherwise; a write with MUTEX clear releases the semaphore if   *)
(* cid is its holder and is ignored otherwise.  SEMCID is read-only and    *)
(* only meaningful while the semaphore is taken: after a release it keeps  *)
(* the last holder (keep) or reads 0.  A faulty register (stuck) ignores   *)
(* the release.                                                            *)
(***************************************************************************)
SemTaken(reg) == TestBit(reg, 0)

SemHolder(reg) == BitAnd(reg, _SEMCR_SEMCID_MASK) \div BIT(_SEMCR_SEMCID_SHIFT)

HeldBy(reg, cid) == SemTaken(reg) /\ SemHolder(reg) = cid

HwSemcrWrite(reg, cid, val, allowed, keep, stuck) ==
    IF TestBit(val, 0)
    THEN IF ~SemTaken(reg) /\ allowed
         THEN _SEMCR_MUTEX + cid * BIT(_SEMCR_SEMCID_SHIFT)
         ELSE reg
    ELSE IF HeldBy(reg, cid) /\ ~stuck
         THEN (IF keep THEN cid * BIT(_SEMCR_SEMCID_SHIFT) ELSE 0)
         ELSE reg

(***************************************************************************)
(* stm32_rif.c: the semaphore primitives.                                  *)
(***************************************************************************)
stm32_rif_is_semaphore_available(reg) == BitAnd(reg, _SEMCR_MUTEX) = 0

\* io_setbits32(addr, _SEMCR_MUTEX): the value written after reading rd.
AcquireWriteValue(rd) == BitOr(rd, _SEMCR_MUTEX)

AcquireResult_NoHolderCheck(rd1, rd2, nb) ==
    IF stm32_rif_is_semaphore_available(rd1)
    THEN TEE_ERROR_ACCESS_DENIED
    ELSE TEE_SUCCESS

AcquireResult_UnshiftedCid(rd1, rd2, nb) ==
    IF stm32_rif_is_semaphore_available(rd1)
       \/ BitAnd(rd2, scid_mask(nb)) # RIF_CID1
    THEN TEE_ERROR_ACCESS_DENIED
    ELSE TEE_SUCCESS

\* The check after the set: rd1 is the read of is_semaphore_available, rd2
\* the read of the holder field (not made when rd1 already decides).
AcquireResult(rd1, rd2, nb) ==
    IF stm32_rif_is_semaphore_available(rd1) \/ ReadScid(rd2, nb) # RIF_CID1
    THEN TEE_ERROR_ACCESS_DENIED
    ELSE TEE_SUCCESS

ReleaseEarlyReturn_Never(rd0) == FALSE

\* release: if (stm32_rif_is_semaphore_available(addr)) return TEE_SUCCESS;
ReleaseEarlyReturn(rd0) == stm32_rif_is_semaphore_available(rd0)

\* io_clrbits32(addr, _SEMCR_MUTEX): the value written after reading rd.
ReleaseWriteValue(rd) == BitClr(rd, _SEMCR_MUTEX)

ReleaseResult_NoHolderCheck(rd1, rd2, nb) ==
    IF ~stm32_rif_is_semaphore_available(rd1)
    THEN TEE_ERROR_ACCESS_DENIED
    ELSE TEE_SUCCESS

\* release: the check after the clear (rd1, rd2 as in AcquireResult).
ReleaseResult(rd1, rd2, nb) ==
    IF ~stm32_rif_is_semaphore_available(rd1) /\ ReadScid(rd2, nb) = RIF_CID1
    THEN TEE_ERROR_ACCESS_DENIED
    ELSE TEE_SUCCESS

\* The whole call, run without another compartment in between.
stm32_rif_acquire_semaphore(reg, nb, allowed) ==
    LET w == HwSemcrWrite(reg, RIF_CID1, AcquireWriteValue(reg), allowed,
                          FALSE, FALSE)
    IN  [reg |-> w, res |-> AcquireResult(w, w, nb)]

stm32_rif_release_semaphore(reg, nb, keep) ==
    IF ReleaseEarlyReturn(reg)
    THEN [reg |-> reg, res |-> TEE_SUCCESS]
    ELSE LET w == HwSemcrWrite(reg, RIF_CID1, ReleaseWriteValue(reg), TRUE,
                               keep, FALSE)
         IN  [reg |-> w, res |-> ReleaseResult(w, w, nb)]

(***************************************************************************)
(* stm32_rif.h / stm32_rif.c: the access decision.                         *)
(***************************************************************************)
\* SCID_OK(cidcfgr, scid_m, cid)
SCID_OK(cidcfgr, scid_m, cid) ==
    /\ BitAnd(cidcfgr, scid_m) = cid * BIT(_CIDCFGR_SCID_SHIFT)
    /\ BitAnd(cidcfgr, _CIDCFGR_SEMEN) = 0

\* SEM_EN_AND_OK(cidcfgr, wl)
SEM_EN_AND_OK(cidcfgr, wl) ==
    /\ BitAnd(cidcfgr, _CIDCFGR_CFEN) # 0
    /\ BitAnd(cidcfgr, _CIDCFGR_SEMEN) # 0
    /\ BitAnd(cidcfgr, _CIDCFGR_SEMWL(wl)) # 0

stm32_rif_check_access_NoSemCheck(cidcfgr, sem, nb, cid_to_check) ==
    IF BitAnd(cidcfgr, _CIDCFGR_CFEN) = 0 THEN TEE_SUCCESS
    ELSE IF SCID_OK(cidcfgr, scid_mask(nb), cid_to_check) THEN TEE_SUCCESS
    ELSE IF SEM_EN_AND_OK(cidcfgr, cid_to_check) THEN TEE_SUCCESS
    ELSE TEE_ERROR_ACCESS_DENIED

stm32_rif_check_access(cidcfgr, sem, nb, cid_to_check) ==
    IF BitAnd(cidcfgr, _CIDCFGR_CFEN) = 0 THEN TEE_SUCCESS
    ELSE IF SCID_OK(cidcfgr, scid_mask(nb), cid_to_check) THEN TEE_SUCCESS
    ELSE IF /\ SEM_EN_AND_OK(cidcfgr, cid_to_check)
            /\ \/ BitAnd(sem, _SEMCR_MUTEX) = 0
               \/ ReadScid(sem, nb) = cid_to_check
         THEN TEE_SUCCESS
    ELSE TEE_ERROR_ACCESS_DENIED

(***************************************************************************)
(* stm32_rifsc.c: the RIFSC registers.  hw is the register file:           *)
(*   sec, priv, lock   RISC_SECCFGR0, RISC_PRIVCFGR0, RISC_RCFGLOCKR0      *)
(*   cid[id], sem[id]  RISC_PERx_CIDCFGR, RISC_PERx_SEMCR of RISUP id      *)
(*   rimu[id]          RIMC_ATTRx of RIMU id                               *)
(* The hardware ignores a write to the security bit, the privilege bit or  *)
(* the CIDCFGR of a RISUP whose RCFGLOCKR bit is set; lock bits are set    *)
(* only.  A compartment takes a RISUP's semaphore only if the CIDCFGR the  *)
(* hardware holds enables semaphore mode and white-lists it.               *)
(***************************************************************************)
\* io_clrsetbits32_stm32shregs(addr, clr, set): the value written.
ClrSetBits(old, clr, set) == BitOr(BitClr(old, clr), set)

BoolBit(b) == IF b THEN 1 ELSE 0

\* A write of word new to SECCFGR0 / PRIVCFGR0: locked bits keep their value.
HwLockedWordWrite(old, new, lock) == BitOr(BitAnd(old, lock), BitClr(new, lock))

\* if (en) io_clrsetbits32(SECCFGR0, BIT(id), sec << id), as the hardware
\* applies it.
HwWriteSec(hw, en, id, sec) ==
    IF en
    THEN [hw EXCEPT !.sec =
             HwLockedWordWrite(@, ClrSetBits(@, BIT(id), BoolBit(sec) * BIT(id)),
                               hw.lock)]
    ELSE hw

\* if (en) io_clrsetbits32(PRIVCFGR0, BIT(id), priv << id)
HwWritePriv(hw, en, id, priv) ==
    IF en
    THEN [hw EXCEPT !.priv =
             HwLockedWordWrite(@, ClrSetBits(@, BIT(id), BoolBit(priv) * BIT(id)),
                               hw.lock)]
    ELSE hw

\* if (en) io_write32(PERx_CIDCFGR, new)
HwWriteCidcfgr(hw, en, id, new) ==
    IF en /\ ~TestBit(hw.lock, id) THEN [hw EXCEPT !.cid[id] = new] ELSE hw

\* if (en) io_setbits32(RCFGLOCKR0, BIT(id))
HwSetLock(hw, en, id) ==
    IF en THEN [hw EXCEPT !.lock = BitOr(@, BIT(id))] ELSE hw

\* Whether the hardware lets compartment cid take the semaphore of RISUP id.
HwSemAllowed(hw, id, cid) == SEM_EN_AND_OK(hw.cid[id], cid)

(***************************************************************************)
(* stm32_rif.h / stm32_rifsc.c: applying one RISUP configuration.          *)
(***************************************************************************)
\* SEM_MODE_INCORRECT(cidcfgr), CFG_STM32_RIF build
SEM_MODE_INCORRECT(cidcfgr) ==
    \/ BitAnd(cidcfgr, _CIDCFGR_CFEN) = 0
    \/ BitAnd(cidcfgr, _CIDCFGR_SEMEN) = 0
    \/ /\ BitAnd(cidcfgr, _CIDCFGR_SEMWL(RIF_CID1)) = 0
       /\ BitAnd(cidcfgr, _CIDCFGR_SEMEN) # 0

RisupCfgWrites_Ungated(hw, pd, risup) ==
    [hw |-> HwSetLock(
                HwWriteCidcfgr(
                    HwWritePriv(
                        HwWriteSec(hw, pd.sec_en, risup.id, risup.sec),
                        pd.priv_en, risup.id, risup.priv),
                    pd.rif_en, risup.id, risup.cid_attr),
                risup.lock, risup.id),
     wr |-> (IF pd.sec_en THEN {"SEC"} ELSE {})
              \cup (IF pd.priv_en THEN {"PRIV"} ELSE {})
              \cup (IF pd.rif_en THEN {"CIDCFGR"} ELSE {})
              \cup (IF risup.lock THEN {"LOCK"} ELSE {})]

\* stm32_risup_cfg, the writes before the semaphore step: the registers
\* after them and the registers the code wrote.
RisupCfgWrites(hw, pd, risup) ==
    [hw |-> HwSetLock(
                HwWriteCidcfgr(
                    HwWritePriv(
                        HwWriteSec(hw, pd.sec_en, risup.id, risup.sec),
                        pd.priv_en, risup.id, risup.priv),
                    pd.is_tdcid /\ pd.rif_en, risup.id, risup.cid_attr),
                pd.is_tdcid /\ risup.lock, risup.id),
     wr |-> (IF pd.sec_en THEN {"SEC"} ELSE {})
              \cup (IF pd.priv_en THEN {"PRIV"} ELSE {})
              \cup (IF pd.is_tdcid /\ pd.rif_en THEN {"CIDCFGR"} ELSE {})
              \cup (IF pd.is_tdcid /\ risup.lock THEN {"LOCK"} ELSE {})]

\* stm32_risup_cfg, the register writes before the semaphore step in
\* program order, each with the word or bit written.
RisupCfgWriteSeq(pd, risup) ==
    (IF pd.sec_en THEN << [reg |-> "SEC", val |-> BoolBit(risup.sec)] >>
     ELSE << >>)
    \o (IF pd.priv_en THEN << [reg |-> "PRIV", val |-> BoolBit(risup.priv)] >>
        ELSE << >>)
    \o (IF pd.is_tdcid /\ pd.rif_en
        THEN << [reg |-> "CIDCFGR", val |-> risup.cid_attr] >> ELSE << >>)
    \o (IF pd.is_tdcid /\ risup.lock
        THEN << [reg |-> "LOCK", val |-> 1] >> ELSE << >>)

RisupCfgReleases_ModeOnly(hw, risup) == SEM_MODE_INCORRECT(risup.cid_attr)

\* stm32_risup_cfg: release when the mode is incorrect or the RISUP reads
\* non-secure, acquire otherwise.
RisupCfgReleases(hw, risup) ==
    SEM_MODE_INCORRECT(risup.cid_attr) \/ ~TestBit(hw.sec, risup.id)

\* stm32_risup_cfg, the semaphore step on registers hw: [reg, res, op].
RisupCfgSemaphore(hw, risup, keep) ==
    IF RisupCfgReleases(hw, risup)
    THEN [op |-> "SEM_REL"]
            @@ stm32_rif_release_semaphore(hw.sem[risup.id], MAX_CID_SUPPORTED,
                                           keep)
    ELSE [op |-> "SEM_ACQ"]
            @@ stm32_rif_acquire_semaphore(hw.sem[risup.id], MAX_CID_SUPPORTED,
                                           HwSemAllowed(hw, risup.id, RIF_CID1))

\* stm32_risup_cfg after the writes w, with the semaphore step's outcome s.
RisupCfgReturn(w, id, s) ==
    [hw  |-> [w.hw EXCEPT !.sem[id] = s.reg],
     res |-> IF s.res # TEE_SUCCESS THEN TEE_ERROR_ACCESS_DENIED ELSE TEE_SUCCESS,
     wr  |-> w.wr \cup {s.op}]

RisupCfgSettle(w, risup, keep) ==
    RisupCfgReturn(w, risup.id, RisupCfgSemaphore(w.hw, risup, keep))

\* stm32_risup_cfg: [hw, res, wr]; keep is the hardware's choice for the
\* holder field of a released semaphore.
stm32_risup_cfg(hw, pd, risup, keep) ==
    IF risup.id >= pd.nb_risup
    THEN [hw |-> hw, res |-> TEE_ERROR_BAD_PARAMETERS, wr |-> {}]
    ELSE RisupCfgSettle(RisupCfgWrites(hw, pd, risup), risup, keep)

\* One round of a setup loop: prev is the outcome so far, r the outcome of
\* the next entry applied to prev.hw; the loop stops at the first failure.
SetupRound(prev, r) ==
    IF prev.res # TEE_SUCCESS THEN prev
    ELSE [hw |-> r.hw, res |-> r.res, wr |-> prev.wr \cup r.wr]

NoneDone(hw) == [hw |-> hw, res |-> TEE_SUCCESS, wr |-> {}]

RisupSetupEntry(prev, pd, keep, i) ==
    SetupRound(prev, stm32_risup_cfg(prev.hw, pd, pd.risup[i], keep))

RECURSIVE RisupSetupUpTo(_, _, _, _)
RisupSetupUpTo(hw, pd, keep, i) ==
    IF i = 0 THEN NoneDone(hw)
    ELSE RisupSetupEntry(RisupSetupUpTo(hw, pd, keep, i - 1), pd, keep, i)

\* stm32_risup_setup: [hw, res, wr]
stm32_risup_setup(hw, pd, keep) ==
    RisupSetupUpTo(hw, pd, keep,
                   IF Len(pd.risup) < pd.nb_risup THEN Len(pd.risup)
                   ELSE pd.nb_risup)

\* RIFSC_RISC_CIDCFGR_SCID_MASK
RIFSC_RISC_CIDCFGR_SCID_MASK == GENMASK_32(6, 4)

\* RIFSC_RIMC_CIDSEL_MASK
RIFSC_RIMC_CIDSEL_MASK == BIT(2)

\* (attr & RIFSC_RIMC_MCID_MASK) >> RIFSC_RIMC_MCID_SHIFT
RimcMcid(attr) == (attr \div BIT(4)) % 8

\* rimu_risup[]: the RISUP paired with each RIMU, 0 for none (the first
\* two entries of the table; RISUP 1 stands for SDMMC1).
rimu_risup == (0 :> 0) @@ (1 :> 1)

\* stm32_rimu_errata_ahbrisab: rimu->risup_id after the table lookup
\* (the field is zero-initialised by the callers).
RimuRisupId(rimu) == IF rimu.id \in DOMAIN rimu_risup THEN rimu_risup[rimu.id]
                     ELSE 0

\* The test on the CIDCFGR word of the paired RISUP.
RimuInheritsCid0_NoWhiteListTest(cidcfgr) ==
    \/ BitAnd(cidcfgr, _CIDCFGR_CFEN) = 0
    \/ /\ BitAnd(cidcfgr, _CIDCFGR_SEMEN) = 0
       /\ BitAnd(cidcfgr, RIFSC_RISC_CIDCFGR_SCID_MASK)
             \div BIT(_CIDCFGR_SCID_SHIFT) = 0

RimuInheritsCid0(cidcfgr) ==
    \/ BitAnd(cidcfgr, _CIDCFGR_CFEN) = 0
    \/ /\ BitAnd(cidcfgr, _CIDCFGR_SEMEN) = 0
       /\ BitAnd(cidcfgr, RIFSC_RISC_CIDCFGR_SCID_MASK)
             \div BIT(_CIDCFGR_SCID_SHIFT) = 0
    \/ /\ BitAnd(cidcfgr, _CIDCFGR_SEMEN) # 0
       /\ BitAnd(cidcfgr, BIT(_CIDCFGR_SEMWL_SHIFT)) # 0

\* stm32_rimu_errata_ahbrisab: TRUE when the function calls panic().
stm32_rimu_errata_ahbrisab(hw, pd, rimu) ==
    IF ~pd.errata_ahbrisab THEN FALSE
    ELSE IF BitAnd(rimu.attr, RIFSC_RIMC_CIDSEL_MASK) # 0
    THEN RimcMcid(rimu.attr) = 0 /\ ~pd.insecure
    ELSE IF RimuRisupId(rimu) = 0 THEN ~pd.insecure
    ELSE IF \A j \in 1..Len(pd.risup) : pd.risup[j].id # RimuRisupId(rimu)
    THEN TRUE
    ELSE RimuInheritsCid0(hw.cid[RimuRisupId(rimu)]) /\ ~pd.insecure

\* stm32_rimu_cfg
stm32_rimu_cfg(hw, pd, rimu) ==
    IF rimu.id >= pd.nb_rimu
    THEN [hw |-> hw, res |-> TEE_ERROR_BAD_PARAMETERS, wr |-> {}]
    ELSE IF stm32_rimu_errata_ahbrisab(hw, pd, rimu)
    THEN [hw |-> hw, res |-> "panic", wr |-> {}]
    ELSE IF pd.rif_en
         THEN [hw |-> [hw EXCEPT !.rimu[rimu.id] = rimu.attr],
               res |-> TEE_SUCCESS, wr |-> {"RIMU"}]
         ELSE [hw |-> hw, res |-> TEE_SUCCESS, wr |-> {}]

RimuSetupEntry(prev, pd, i) ==
    SetupRound(prev, stm32_rimu_cfg(prev.hw, pd, pd.rimu[i]))

RECURSIVE RimuSetupUpTo(_, _, _)
RimuSetupUpTo(hw, pd, i) ==
    IF i = 0 THEN NoneDone(hw)
    ELSE RimuSetupEntry(RimuSetupUpTo(hw, pd, i - 1), pd, i)

\* stm32_rimu_setup: [hw, res, wr]
stm32_rimu_setup(hw, pd) ==
    RimuSetupUpTo(hw, pd,
                  IF Len(pd.rimu) < pd.nb_rimu THEN Len(pd.rimu) ELSE pd.nb_rimu)

\* if (res) panic();
PanicIf(r) == [r EXCEPT !.res = IF @ # TEE_SUCCESS THEN "panic" ELSE @]

\* stm32_rifsc_probe after stm32_risup_setup returned r.
ProbeAfterRisups(r, pd) ==
    IF r.res = "panic" \/ ~pd.is_tdcid THEN r
    ELSE PanicIf(SetupRound(r, stm32_rimu_setup(r.hw, pd)))

\* stm32_rifsc_probe up to the registration of the controller (no st,glocked
\* property): RISUPs, then RIMUs if TDCID; res is "panic" when a step fails.
stm32_rifsc_probe(hw, pd, keep) ==
    ProbeAfterRisups(PanicIf(stm32_risup_setup(hw, pd, keep)), pd)

\* stm32_rifsc_check_access past the security and privilege tests: the CID
\* test on the CIDCFGR word.
RifscCidVerdict(cidcfgr, cid_to_check) ==
    IF BitAnd(cidcfgr, _CIDCFGR_CFEN) = 0 THEN TEE_SUCCESS
    ELSE IF \/ /\ BitAnd(cidcfgr, _CIDCFGR_SEMEN) # 0
               /\ ~SEM_EN_AND_OK(cidcfgr, cid_to_check)
            \/ /\ BitAnd(cidcfgr, _CIDCFGR_SEMEN) = 0
               /\ ~SCID_OK(cidcfgr, RIFSC_RISC_CIDCFGR_SCID_MASK, cid_to_check)
    THEN TEE_ERROR_BAD_PARAMETERS
    ELSE TEE_SUCCESS

\* stm32_rifsc_check_access; q is the decoded firewall query: argc
\* arguments, and from args[0] the id, whether it names a RISUP
\* (id < RIMU_ID_OFFSET), the sec and priv flags and the CID to check.
stm32_rifsc_check_access(hw, q) ==
    IF q.argc # 1 THEN TEE_ERROR_BAD_PARAMETERS
    ELSE IF ~q.risup THEN TEE_SUCCESS
    ELSE IF ~q.sec /\ TestBit(hw.sec, q.id) THEN TEE_ERROR_ACCESS_DENIED
    ELSE IF ~q.priv /\ TestBit(hw.priv, q.id) THEN TEE_ERROR_ACCESS_DENIED
    ELSE RifscCidVerdict(hw.cid[q.id], q.cid)

\* stm32_rifsc_acquire_access, the semaphore branch: s is the outcome of
\* stm32_rif_acquire_semaphore.
RifscAcquireTaken(hw, id, s) ==
    [hw |-> [hw EXCEPT !.sem[id] = s.reg], res |-> s.res, wr |-> {"SEM_ACQ"}]

\* stm32_rifsc_acquire_access: [hw, res, wr]
stm32_rifsc_acquire_access(hw, q) ==
    IF q.argc = 0
    THEN [hw |-> hw, res |-> TEE_ERROR_BAD_PARAMETERS, wr |-> {}]
    ELSE IF ~q.risup THEN [hw |-> hw, res |-> TEE_SUCCESS, wr |-> {}]
    ELSE IF ~TestBit(hw.sec, q.id)
    THEN [hw |-> hw, res |-> TEE_ERROR_ACCESS_DENIED, wr |-> {}]
    ELSE IF BitAnd(hw.cid[q.id], _CIDCFGR_CFEN) = 0
    THEN [hw |-> hw, res |-> TEE_SUCCESS, wr |-> {}]
    ELSE IF BitAnd(hw.cid[q.id], _CIDCFGR_SEMEN) # 0
    THEN IF ~SEM_EN_AND_OK(hw.cid[q.id], RIF_CID1)
         THEN [hw |-> hw, res |-> TEE_ERROR_BAD_PARAMETERS, wr |-> {}]
         ELSE RifscAcquireTaken(
                  hw, q.id,
                  stm32_rif_acquire_semaphore(
                      hw.sem[q.id], MAX_CID_SUPPORTED,
                      HwSemAllowed(hw, q.id, RIF_CID1)))
    ELSE IF ~SCID_OK(hw.cid[q.id], RIFSC_RISC_CIDCFGR_SCID_MASK, RIF_CID1)
    THEN [hw |-> hw, res |-> TEE_ERROR_ACCESS_DENIED, wr |-> {}]
    ELSE [hw |-> hw, res |-> TEE_SUCCESS, wr |-> {}]

\* stm32_rifsc_set_config with the CIDCFGR comparison of the non-TDCID case
\* made after stm32_risup_cfg.
stm32_rifsc_set_config_CheckAfter(hw, pd, q, keep) ==
    IF q.argc # 1
    THEN [hw |-> hw, res |-> TEE_ERROR_BAD_PARAMETERS, wr |-> {}]
    ELSE IF q.risup
    THEN IF ~pd.is_tdcid
            /\ (q.id >= pd.nb_risup \/ hw.cid[q.id] # q.cid_attr)
         THEN [stm32_risup_cfg(hw, pd,
                               [id |-> q.id, sec |-> q.sec, priv |-> q.priv,
                                lock |-> q.lock, cid_attr |-> q.cid_attr],
                               keep)
                  EXCEPT !.res = TEE_ERROR_BAD_PARAMETERS]
         ELSE stm32_risup_cfg(hw, pd,
                              [id |-> q.id, sec |-> q.sec, priv |-> q.priv,
                               lock |-> q.lock, cid_attr |-> q.cid_attr], keep)
    ELSE IF ~pd.is_tdcid
         THEN [hw |-> hw, res |-> TEE_ERROR_ACCESS_DENIED, wr |-> {}]
         ELSE stm32_rimu_cfg(hw, pd, [id |-> q.id, attr |-> q.attr])

\* stm32_rifsc_set_config; q is the decoded firewall query: argc arguments,
\* and from args[0] the id, whether it names a RISUP (id < RIMU_ID_OFFSET),
\* and the sec, priv, lock, cid_attr (RISUP) or attr (RIMU) fields.
stm32_rifsc_set_config(hw, pd, q, keep) ==
    IF q.argc # 1
    THEN [hw |-> hw, res |-> TEE_ERROR_BAD_PARAMETERS, wr |-> {}]
    ELSE IF q.risup
    THEN IF ~pd.is_tdcid
            /\ (q.id >= pd.nb_risup \/ hw.cid[q.id] # q.cid_attr)
         \* (a read past the last CIDCFGR: BAD_PARAMETERS whatever it returns)
         THEN [hw |-> hw, res |-> TEE_ERROR_BAD_PARAMETERS, wr |-> {}]
         ELSE stm32_risup_cfg(hw, pd,
                              [id |-> q.id, sec |-> q.sec, priv |-> q.priv,
                               lock |-> q.lock, cid_attr |-> q.cid_attr], keep)
    ELSE IF ~pd.is_tdcid
         THEN [hw |-> hw, res |-> TEE_ERROR_ACCESS_DENIED, wr |-> {}]
         ELSE stm32_rimu_cfg(hw, pd, [id |-> q.id, attr |-> q.attr])

\* stm32_rifsc_reconfigure_risup: the argument check.
ReconfigureBadParams(pd, risup_id, cid) ==
    risup_id > pd.nb_risup \/ cid > MAX_CID_SUPPORTED

ReconfigureLocked_Never(hw, risup_id) == FALSE

\* stm32_rifsc_reconfigure_risup: the RCFGLOCKR test.
ReconfigureLocked(hw, risup_id) == TestBit(hw.lock, risup_id)

\* risup->cid_attr = cid << SCID_SHIFT, then CFEN set or cleared.
ReconfigureCidAttr(cid, cfen) ==
    IF cfen THEN BitOr(cid * BIT(_CIDCFGR_SCID_SHIFT), _CIDCFGR_CFEN)
    ELSE BitClr(cid * BIT(_CIDCFGR_SCID_SHIFT), _CIDCFGR_CFEN)

\* rifsc_pdata.risup[risup_id]; past the end of the array it is memory the
\* driver does not own, whose id and lock fields read as g.
ReconfigureEntry(pd, risup_id, g) ==
    IF risup_id + 1 <= Len(pd.risup) THEN pd.risup[risup_id + 1]
    ELSE [id |-> g.id, sec |-> FALSE, priv |-> FALSE, lock |-> g.lock,
          cid_attr |-> 0, pm_sem |-> FALSE]

\* The update of the entry and the call of stm32_risup_cfg on it.
ReconfigureApply(hw, pd, risup_id, new, keep) ==
    [cfg |-> {new},
     pd |-> IF risup_id + 1 <= Len(pd.risup)
            THEN [pd EXCEPT !.risup[risup_id + 1] = new] ELSE pd]
        @@ stm32_risup_cfg(hw, pd, new, keep)

\* stm32_rifsc_reconfigure_risup: [hw, pd, res, wr, cfg]
stm32_rifsc_reconfigure_risup(hw, pd, risup_id, cid, sec, priv, cfen, keep, g) ==
    IF ReconfigureBadParams(pd, risup_id, cid)
    THEN [hw |-> hw, pd |-> pd, res |-> TEE_ERROR_BAD_PARAMETERS, wr |-> {},
          cfg |-> {}]
    ELSE IF ReconfigureLocked(hw, risup_id)
    THEN [hw |-> hw, pd |-> pd, res |-> TEE_ERROR_ACCESS_DENIED, wr |-> {},
          cfg |-> {}]
    ELSE ReconfigureApply(hw, pd, risup_id,
                          [ReconfigureEntry(pd, risup_id, g) EXCEPT
                              !.cid_attr = ReconfigureCidAttr(cid, cfen),
                              !.sec = sec, !.priv = priv],
                          keep)

(***************************************************************************)
(* Bounds of the model.                                                    *)
(***************************************************************************)
\* Other compartments contending on one SEMCR register: CIDs 2..NumOthers+1,
\* and CID 5 (whose two low bits read as CID 1) when the field holds it.
NumOthers == 2

\* RISUPs and RIMUs the RIFSC hardware reports (HWCFGR2).
NbRisup == 2

NbRimu == 1

\* Runtime RIFSC calls (set_config, reconfigure_risup) after the probe.
MaxCalls == 1

VARIABLES
    semcr,        \* the SEMCR register
    nb_cid_supp,  \* the nb_cid_supp argument of the calls on this register
    pc,           \* where compartment 1 is in its acquire / release call
    rd,           \* the register value the call read last
    ret,          \* the call that returned last and its result
    obs,          \* what the hardware held at the steps of the current call
    oth_st,       \* per other compartment: how its last acquire / release ended
    chk,          \* stm32_rif_check_access: its arguments and its result
    rifsc_st,     \* RIFSC driver: "off", "boot", "run" or "panic"
    rifsc_hw,     \* RIFSC registers
    rifsc_pd,     \* rifsc_pdata and rifsc_drvdata
    rifsc_call,   \* the RIFSC call that returned last, and what it did
    risaf_dt,     \* RISAF: the device-tree node and the platform it boots on
    risaf_drv,    \* RISAF driver: where the probe is and its regions array
    risaf_hw,     \* RISAF region registers
    bnd,          \* risaf_check_region_boundaries: its arguments and result
    etzpc_hw,     \* ETZPC registers
    etzpc_drv,    \* ETZPC driver data, PM shadow words and PM state
    etzpc_call,   \* the ETZPC call that returned last, and what it did
    fw,           \* the driver whose calls this behaviour is made of
    pwr,          \* PWR driver: device-tree tables, registers, last call
    prs,          \* stm32_rif_parse_cfg: its arguments and the table built
    hpdma,        \* HPDMA driver: registers, hpdma_pdata, last PM call
    rproc         \* remoteproc: m_get_cnt, the memory firewall state, last call

semVars == <<semcr, nb_cid_supp, pc, rd, ret, obs, oth_st>>

rifscVars == <<rifsc_st, rifsc_hw, rifsc_pd, rifsc_call>>

risafVars == <<risaf_dt, risaf_drv, risaf_hw>>

etzpcVars == <<etzpc_hw, etzpc_drv, etzpc_call>>

notSem == <<chk, rifscVars, risafVars, bnd, etzpcVars, fw, pwr, prs, hpdma, rproc>>

notChk == <<semVars, rifscVars, risafVars, bnd, etzpcVars, fw, pwr, prs, hpdma, rproc>>

notRifsc == <<semVars, chk, risafVars, bnd, etzpcVars, fw, pwr, prs, hpdma, rproc>>

notRisaf == <<semVars, chk, rifscVars, bnd, etzpcVars, fw, pwr, prs, hpdma, rproc>>

notBnd == <<semVars, chk, rifscVars, risafVars, etzpcVars, fw, pwr, prs, hpdma, rproc>>

notEtzpc == <<semVars, chk, rifscVars, risafVars, bnd, fw, pwr, prs, hpdma, rproc>>

vars == <<semVars, chk, rifscVars, risafVars, bnd, etzpcVars, fw,
         pwr, prs, hpdma, rproc>>

(***************************************************************************)
(* SpecSem: compartment 1 runs stm32_rif_acquire_semaphore and             *)
(* stm32_rif_release_semaphore one register access at a time while the     *)
(* other compartments take and release the same semaphore.                 *)
(***************************************************************************)
\* The values callers pass for nb_cid_supp.
NbCidSupp == {HPDMA_NB_MAX_CID_SUPPORTED, MAX_CID_SUPPORTED}

Others == {c \in 2..nb_cid_supp : c <= NumOthers + 1 \/ c = 5}

NoRet == [op |-> "none", res |-> "none"]

NewObs == [at_call |-> "none", wrote |-> FALSE, free_at_wr |-> FALSE,
           other_at_rd |-> FALSE, contended |-> FALSE]

WhoHolds(reg) ==
    IF ~SemTaken(reg) THEN "free"
    ELSE IF SemHolder(reg) = RIF_CID1 THEN "cid1" ELSE "other"

SemFrame == UNCHANGED notSem

\* No call of stm32_rif_check_access is modelled.
ChkIdle == chk = [cidcfgr |-> 0, semcr |-> 0, nb |-> 0, cid |-> 0, res |-> "off"]

\* The RIFSC driver is not modelled.
RifscIdle ==
    /\ rifsc_st = "off" /\ rifsc_hw = 0 /\ rifsc_pd = 0 /\ rifsc_call = 0

\* The RISAF driver is not modelled.
RisafIdle == risaf_dt = 0 /\ risaf_drv = 0 /\ risaf_hw = 0

\* No call of risaf_check_region_boundaries is modelled.
BndIdle == bnd = 0

\* The PWR driver is not modelled.
PwrIdle == pwr = 0

\* No call of stm32_rif_parse_cfg is modelled.
PrsIdle == prs = 0

\* The HPDMA driver is not modelled.
HpdmaIdle == hpdma = 0

\* The remoteproc driver is not modelled.
RprocIdle == rproc = 0

\* The ETZPC driver is not modelled.
EtzpcIdle == etzpc_hw = 0 /\ etzpc_drv = 0 /\ etzpc_call = 0

\* No semaphore call is modelled.
SemIdle ==
    /\ semcr = 0 /\ nb_cid_supp = MAX_CID_SUPPORTED /\ pc = "idle" /\ rd = 0
    /\ ret = NoRet /\ obs = NewObs
    /\ oth_st = [c \in 2..MAX_CID_SUPPORTED |-> "none"]

SemInit ==
    /\ ChkIdle /\ RifscIdle /\ RisafIdle /\ BndIdle /\ EtzpcIdle
    /\ fw = "sem" /\ PwrIdle /\ PrsIdle /\ HpdmaIdle /\ RprocIdle
    /\ semcr = 0
    /\ nb_cid_supp \in NbCidSupp
    /\ pc = "idle"
    /\ rd = 0
    /\ ret = NoRet
    /\ obs = NewObs
    /\ oth_st = [c \in 2..MAX_CID_SUPPORTED |-> "none"]

\* acquire, io_setbits32: the read of the read-modify-write.
AcqSetRead ==
    /\ pc = "idle"
    /\ pc' = "acq_wr"
    /\ rd' = semcr
    /\ ret' = NoRet
    /\ obs' = [NewObs EXCEPT !.at_call = WhoHolds(semcr)]
    /\ UNCHANGED <<semcr, nb_cid_supp, oth_st>>
    /\ SemFrame

\* acquire, io_setbits32: the write.
AcqSetWrite ==
    /\ pc = "acq_wr"
    /\ semcr' = HwSemcrWrite(semcr, RIF_CID1, AcquireWriteValue(rd), TRUE,
                             FALSE, FALSE)
    /\ obs' = [obs EXCEPT !.wrote = TRUE, !.free_at_wr = ~SemTaken(semcr)]
    /\ pc' = "acq_rd1"
    /\ rd' = 0
    /\ UNCHANGED <<nb_cid_supp, ret, oth_st>>
    /\ SemFrame

\* acquire: stm32_rif_is_semaphore_available(addr) of the check.
AcqRead1 ==
    /\ pc = "acq_rd1"
    /\ IF stm32_rif_is_semaphore_available(semcr)
       THEN /\ ret' = [op |-> "acquire",
                       res |-> AcquireResult(semcr, semcr, nb_cid_supp)]
            /\ pc' = "idle"
            /\ rd' = 0
       ELSE /\ pc' = "acq_rd2"
            /\ rd' = semcr
            /\ ret' = ret
    /\ UNCHANGED <<semcr, nb_cid_supp, obs, oth_st>>
    /\ SemFrame

\* acquire: the read of the holder field, and the return.
AcqRead2 ==
    /\ pc = "acq_rd2"
    /\ ret' = [op |-> "acquire", res |-> AcquireResult(rd, semcr, nb_cid_supp)]
    /\ pc' = "idle"
    /\ rd' = 0
    /\ UNCHANGED <<semcr, nb_cid_supp, obs, oth_st>>
    /\ SemFrame

\* release: the first stm32_rif_is_semaphore_available(addr).
RelRead0 ==
    /\ pc = "idle"
    /\ obs' = [NewObs EXCEPT !.at_call = WhoHolds(semcr)]
    /\ IF ReleaseEarlyReturn(semcr)
       THEN /\ ret' = [op |-> "release", res |-> TEE_SUCCESS]
            /\ pc' = "idle"
       ELSE /\ ret' = NoRet
            /\ pc' = "rel_rd"
    /\ rd' = 0
    /\ UNCHANGED <<semcr, nb_cid_supp, oth_st>>
    /\ SemFrame

\* release, io_clrbits32: the read of the read-modify-write.
RelClrRead ==
    /\ pc = "rel_rd"
    /\ rd' = semcr
    /\ pc' = "rel_wr"
    /\ UNCHANGED <<semcr, nb_cid_supp, ret, obs, oth_st>>
    /\ SemFrame

\* release, io_clrbits32: the write.
RelClrWrite ==
    /\ pc = "rel_wr"
    /\ \E keep \in BOOLEAN, stuck \in BOOLEAN :
          semcr' = HwSemcrWrite(semcr, RIF_CID1, ReleaseWriteValue(rd), TRUE,
                                keep, stuck)
    /\ obs' = [obs EXCEPT !.wrote = TRUE]
    /\ pc' = "rel_rd1"
    /\ rd' = 0
    /\ UNCHANGED <<nb_cid_supp, ret, oth_st>>
    /\ SemFrame

\* release: stm32_rif_is_semaphore_available(addr) of the check.
RelRead1 ==
    /\ pc = "rel_rd1"
    /\ obs' = [obs EXCEPT !.other_at_rd = (WhoHolds(semcr) = "other")]
    /\ IF stm32_rif_is_semaphore_available(semcr)
       THEN /\ ret' = [op |-> "release",
                       res |-> ReleaseResult(semcr, semcr, nb_cid_supp)]
            /\ pc' = "idle"
            /\ rd' = 0
       ELSE /\ pc' = "rel_rd2"
            /\ rd' = semcr
            /\ ret' = ret
    /\ UNCHANGED <<semcr, nb_cid_supp, oth_st>>
    /\ SemFrame

\* release: the read of the holder field, and the return.
RelRead2 ==
    /\ pc = "rel_rd2"
    /\ ret' = [op |-> "release", res |-> ReleaseResult(rd, semcr, nb_cid_supp)]
    /\ pc' = "idle"
    /\ rd' = 0
    /\ UNCHANGED <<semcr, nb_cid_supp, obs, oth_st>>
    /\ SemFrame

\* Another compartment's acquire: its set of MUTEX, and its own check.
OtherAcquire(c) ==
    /\ semcr' = HwSemcrWrite(semcr, c, _SEMCR_MUTEX, TRUE, FALSE, FALSE)
    /\ oth_st' = [oth_st EXCEPT ![c] = IF HeldBy(semcr', c) THEN "own"
                                                             ELSE "denied"]
    /\ obs' = [obs EXCEPT !.contended = @ \/ semcr' # semcr]
    /\ UNCHANGED <<nb_cid_supp, pc, rd, ret>>
    /\ SemFrame

\* Another compartment's release: its clear of MUTEX.
OtherRelease(c) ==
    /\ \E keep \in BOOLEAN :
          semcr' = HwSemcrWrite(semcr, c, 0, TRUE, keep, FALSE)
    /\ oth_st' = [oth_st EXCEPT ![c] = "released"]
    /\ UNCHANGED <<nb_cid_supp, pc, rd, ret, obs>>
    /\ SemFrame

OtherAcquires == \E c \in Others : OtherAcquire(c)

OtherReleases == \E c \in Others : OtherRelease(c)

SemNext ==
    \/ AcqSetRead
    \/ AcqSetWrite
    \/ AcqRead1
    \/ AcqRead2
    \/ RelRead0
    \/ RelClrRead
    \/ RelClrWrite
    \/ RelRead1
    \/ RelRead2
    \/ OtherAcquires
    \/ OtherReleases

SpecSem == SemInit /\ [][SemNext]_vars

\* Compartment 1 owns the semaphore from the successful return of its acquire
\* until its next call.
Owner1 == ret = [op |-> "acquire", res |-> TEE_SUCCESS]

OthOwn == {c \in Others : oth_st[c] = "own"}

\* C1: stm32_rif_acquire_semaphore returns success only with the mutex set and
\* compartment 1 as the hardware's holder, and from that return until the
\* clear of compartment 1's release no other compartment's acquire succeeds.
C1_AcquireMutualExclusion ==
    /\ Owner1 => HeldBy(semcr, RIF_CID1) /\ OthOwn = {}
    /\ (pc \in {"rel_rd", "rel_wr"} /\ obs.at_call = "cid1")
          => HeldBy(semcr, RIF_CID1) /\ OthOwn = {}

\* C1 witness: compartment 1 owns the semaphore and another compartment's
\* acquire on the register has been refused.
C1_Witness == Owner1 /\ \E c \in Others : oth_st[c] = "denied"

\* C2: stm32_rif_release_semaphore returns AccessDenied only if the register
\* still holds the mutex for compartment 1 after the clear; when another
\* compartment held the semaphore at the call, or holds it at the re-read,
\* release returns success and every other compartment's ownership stands.
C2_ReleaseBenignRace ==
    /\ ret = [op |-> "release", res |-> TEE_ERROR_ACCESS_DENIED]
          => HeldBy(semcr, RIF_CID1)
    /\ (ret.op = "release" /\ (obs.at_call = "other" \/ obs.other_at_rd))
          => ret.res = TEE_SUCCESS
    /\ \A c \in OthOwn : HeldBy(semcr, c)

\* C2 witness: compartment 1 released the semaphore it held, another
\* compartment took it before the re-read, and release returned success.
C2_Witness ==
    /\ ret = [op |-> "release", res |-> TEE_SUCCESS]
    /\ obs.at_call = "cid1"
    /\ obs.other_at_rd
    /\ OthOwn # {}

\* C3: after compartment 1's successful release of the semaphore it held,
\* with no take since, the register is free and any other compartment's
\* acquire takes it; and an acquire of compartment 1 whose set of MUTEX
\* reaches a free register returns success.
C3_HandOver ==
    /\ (ret = [op |-> "release", res |-> TEE_SUCCESS]
        /\ obs.at_call = "cid1" /\ ~obs.contended)
          => /\ ~SemTaken(semcr)
             /\ \A c \in Others :
                   HeldBy(HwSemcrWrite(semcr, c, _SEMCR_MUTEX, TRUE, FALSE,
                                       FALSE), c)
    /\ (ret.op = "acquire" /\ obs.free_at_wr) => ret.res = TEE_SUCCESS

\* C3 witness: another compartment has released the semaphore and the acquire
\* of compartment 1 that found it free has returned success.
C3_Witness ==
    /\ Owner1
    /\ obs.free_at_wr
    /\ \E c \in Others : oth_st[c] = "released"

\* C4: stm32_rif_release_semaphore called while the mutex bit reads 0 returns
\* success without writing the register.
C4_ReleaseFreeNoWrite ==
    (ret.op = "release" /\ obs.at_call = "free")
        => ret.res = TEE_SUCCESS /\ ~obs.wrote

\* C4 witness: a release call that found the semaphore free has returned.
C4_Witness ==
    /\ ret.op = "release"
    /\ obs.at_call = "free"
    /\ \E c \in Others : oth_st[c] = "released"

(***************************************************************************)
(* SpecChk: stm32_rif_check_access applied to register words.              *)
(***************************************************************************)
\* Bits of the words the decision does not read.
ChkOtherCidcfgrBits == {0, BIT(2) + BIT(10) + BIT(24)}

ChkOtherSemcrBits == {0, BIT(1) + BIT(7)}

\* White-lists: empty, full, one compartment, all but one compartment.
ChkWhiteLists ==
    {0, GENMASK_32(23, 16)}
        \cup {_CIDCFGR_SEMWL(c) : c \in 0..MAX_CID_SUPPORTED}
        \cup {GENMASK_32(23, 16) - _CIDCFGR_SEMWL(c) : c \in {0, RIF_CID1}}

ChkCidcfgrWords ==
    {cfen * _CIDCFGR_CFEN + semen * _CIDCFGR_SEMEN
        + scid * BIT(_CIDCFGR_SCID_SHIFT) + wl + o :
        cfen \in {0, 1}, semen \in {0, 1}, scid \in 0..MAX_CID_SUPPORTED,
        wl \in ChkWhiteLists, o \in ChkOtherCidcfgrBits}

ChkSemcrWords ==
    {m * _SEMCR_MUTEX + h * BIT(_SEMCR_SEMCID_SHIFT) + o :
        m \in {0, 1}, h \in 0..MAX_CID_SUPPORTED, o \in ChkOtherSemcrBits}

ChkInit ==
    /\ SemIdle /\ RifscIdle /\ RisafIdle /\ BndIdle /\ EtzpcIdle
    /\ fw = "chk" /\ PwrIdle /\ PrsIdle /\ HpdmaIdle /\ RprocIdle
    /\ \E w \in ChkCidcfgrWords, sw \in ChkSemcrWords, nb \in NbCidSupp,
          c \in 0..MAX_CID_SUPPORTED :
          chk = [cidcfgr |-> w, semcr |-> sw, nb |-> nb, cid |-> c,
                 res |-> "none"]

CheckAccess ==
    /\ chk.res = "none"
    /\ chk' = [chk EXCEPT !.res =
                  stm32_rif_check_access(chk.cidcfgr, chk.semcr, chk.nb,
                                         chk.cid)]
    /\ UNCHANGED notChk

ChkNext == CheckAccess

SpecChk == ChkInit /\ [][ChkNext]_vars

\* The fields of the words as the reference manual lays them out; the CID
\* fields are as wide as the IP's compartment count needs.
ChkCidWidth == IF chk.nb = HPDMA_NB_MAX_CID_SUPPORTED THEN 2 ELSE 3

ChkFiltering == chk.cidcfgr % 2 = 1

ChkSemMode == (chk.cidcfgr \div 2) % 2 = 1

ChkStaticCid == (chk.cidcfgr \div 16) % (2 ^ ChkCidWidth)

ChkWhiteListed == (chk.cidcfgr \div (2 ^ (16 + chk.cid))) % 2 = 1

ChkSemFree == chk.semcr % 2 = 0

ChkSemHolder == (chk.semcr \div 16) % (2 ^ ChkCidWidth)

\* C5: for every CIDCFGR word, SEMCR word and requesting CID in 0..7,
\* stm32_rif_check_access returns success exactly when (a) filtering is
\* disabled, or (b) filtering is on, semaphore mode is off and the static CID
\* is the requesting CID, or (c) filtering and semaphore mode are on, the
\* requesting CID is white-listed and the semaphore is free or held by the
\* requesting CID; otherwise it returns AccessDenied.
C5_CheckAccessDecision ==
    chk.res \notin {"none", "off"} =>
        /\ chk.res \in {TEE_SUCCESS, TEE_ERROR_ACCESS_DENIED}
        /\ chk.res = TEE_SUCCESS <=>
              \/ ~ChkFiltering
              \/ ChkFiltering /\ ~ChkSemMode /\ ChkStaticCid = chk.cid
              \/ /\ ChkFiltering /\ ChkSemMode /\ ChkWhiteListed
                 /\ ChkSemFree \/ ChkSemHolder = chk.cid

\* A white-listed compartment that is not the static CID is granted access
\* because it holds the semaphore, and the word carries unrelated bits.
C5_Witness ==
    /\ chk.res = TEE_SUCCESS
    /\ ChkFiltering /\ ChkSemMode /\ ChkWhiteListed
    /\ ~ChkSemFree /\ ChkSemHolder = chk.cid
    /\ ChkStaticCid # chk.cid
    /\ chk.cidcfgr >= BIT(24)

(***************************************************************************)
(* SpecRifsc: the RIFSC driver.  The device tree and the hardware          *)
(* capabilities are chosen at boot; stm32_rifsc_probe runs once; then      *)
(* set_config and stm32_rifsc_reconfigure_risup are called with any of the *)
(* arguments below while compartment 2 takes and releases semaphores.      *)
(***************************************************************************)
RisupIds == 0..(NbRisup - 1)

CidStatic1 == _CIDCFGR_CFEN + RIF_CID1 * BIT(_CIDCFGR_SCID_SHIFT)

CidSem12 ==
    _CIDCFGR_CFEN + _CIDCFGR_SEMEN + _CIDCFGR_SEMWL(RIF_CID1) + _CIDCFGR_SEMWL(2)

CidSem2 == _CIDCFGR_CFEN + _CIDCFGR_SEMEN + _CIDCFGR_SEMWL(2)

\* RISUP configurations (sec, priv, lock, cid_attr) of device-tree cells and
\* firewall queries.
RisupProfiles ==
    << [sec |-> TRUE,  priv |-> TRUE,  lock |-> FALSE, cid_attr |-> CidSem12],
       [sec |-> TRUE,  priv |-> FALSE, lock |-> TRUE,  cid_attr |-> CidStatic1],
       [sec |-> FALSE, priv |-> FALSE, lock |-> FALSE, cid_attr |-> 0],
       [sec |-> TRUE,  priv |-> FALSE, lock |-> FALSE, cid_attr |-> CidSem2],
       [sec |-> FALSE, priv |-> TRUE,  lock |-> FALSE, cid_attr |-> CidSem12],
       [sec |-> TRUE,  priv |-> TRUE,  lock |-> TRUE,  cid_attr |-> CidSem12] >>

RisupEntry(id, p) ==
    LET c == RisupProfiles[((p + id) % Len(RisupProfiles)) + 1]
    IN  [id |-> id, sec |-> c.sec, priv |-> c.priv, lock |-> c.lock,
         cid_attr |-> c.cid_attr, pm_sem |-> FALSE]

\* The order of the RISUP ids in the st,protreg list: ascending, descending,
\* or the last RISUP alone.
DtOrders ==
    { [i \in 1..NbRisup |-> i - 1], [i \in 1..NbRisup |-> NbRisup - i],
      <<NbRisup - 1>> }

\* rifsc_pdata after stm32_rifsc_parse_fdt and stm32_rifsc_get_driverdata.
RifscPdatas ==
    { [risup |-> [i \in 1..Len(o) |-> RisupEntry(o[i], p)],
       rimu |-> << [id |-> 0, attr |-> BIT(8) + 2 * BIT(4)] >>,
       is_tdcid |-> t, rif_en |-> f[1], sec_en |-> f[2], priv_en |-> f[3],
       nb_risup |-> NbRisup, nb_rimu |-> NbRimu, errata_ahbrisab |-> FALSE,
       insecure |-> FALSE] :
      o \in DtOrders, p \in 0..(Len(RisupProfiles) - 1), t \in BOOLEAN,
      f \in { <<TRUE, TRUE, TRUE>>, <<TRUE, FALSE, TRUE>>,
              <<FALSE, TRUE, FALSE>> } }

HwReset ==
    [sec |-> 0, priv |-> 0, lock |-> 0, cid |-> [id \in RisupIds |-> 0],
     sem |-> [id \in RisupIds |-> 0], rimu |-> [id \in 0..(NbRimu - 1) |-> 0]]

\* The CIDCFGR the device tree gives RISUP id (0 when it is not listed).
DtCidAttr(pd, id) ==
    IF \E i \in 1..Len(pd.risup) : pd.risup[i].id = id
    THEN (CHOOSE e \in {pd.risup[i] : i \in 1..Len(pd.risup)} : e.id = id).cid_attr
    ELSE 0

\* The registers when OP-TEE boots: at their reset values if OP-TEE is the
\* TDCID; otherwise the TDCID has programmed the CID filtering (as the
\* device tree describes it, or every RISUP for compartments 1 and 2 in
\* semaphore mode) and may have locked RISUP 0.
HwAtBoot(pd) ==
    IF pd.is_tdcid THEN {HwReset}
    ELSE { [HwReset EXCEPT !.cid = c, !.lock = l] :
           c \in { [id \in RisupIds |-> DtCidAttr(pd, id)],
                   [id \in RisupIds |-> CidSem12] },
           l \in {0, BIT(0)} }

NoCall ==
    [op |-> "none", id |-> 0, res |-> "none", wr |-> {}, cfg |-> {},
     locked |-> FALSE, differs |-> FALSE, hw_same |-> TRUE, attr_same |-> TRUE,
     pd_same |-> TRUE, gated_same |-> TRUE, arg |-> 0, n |-> 0]

RifscInit ==
    /\ SemIdle /\ ChkIdle /\ RisafIdle /\ BndIdle /\ EtzpcIdle
    /\ fw = "rifsc" /\ PwrIdle /\ PrsIdle /\ HpdmaIdle /\ RprocIdle
    /\ rifsc_st = "boot"
    /\ rifsc_pd \in RifscPdatas
    /\ rifsc_hw \in HwAtBoot(rifsc_pd)
    /\ rifsc_call = NoCall

\* The security bit, privilege bit and CIDCFGR of RISUP id.
RisupAttr(hw, id) ==
    <<TestBit(hw.sec, id), TestBit(hw.priv, id), hw.cid[id]>>

\* Firewall queries: every profile for every RISUP id and for the first id
\* past the last RISUP, a RIMU attribute, a RIMU id past the last RIMU, and
\* a query with two arguments.
RifscQueries ==
    { [argc |-> 1, risup |-> TRUE, id |-> id,
       sec |-> RisupProfiles[p].sec, priv |-> RisupProfiles[p].priv,
       lock |-> RisupProfiles[p].lock, cid_attr |-> RisupProfiles[p].cid_attr,
       attr |-> 0] : id \in 0..NbRisup, p \in 1..Len(RisupProfiles) }
    \cup
    { [argc |-> n, risup |-> FALSE, id |-> id, sec |-> FALSE, priv |-> FALSE,
       lock |-> FALSE, cid_attr |-> 0, attr |-> BIT(9) + BIT(4)] :
       n \in {1, 2}, id \in {0, NbRimu} }

\* Arguments (cid, sec, priv, cfen) of stm32_rifsc_reconfigure_risup.
ReconfigureArgs ==
    { <<1, TRUE, TRUE, TRUE>>, <<2, FALSE, FALSE, TRUE>>,
      <<0, TRUE, FALSE, FALSE>>, <<MAX_CID_SUPPORTED, FALSE, TRUE, TRUE>>,
      <<MAX_CID_SUPPORTED + 1, TRUE, TRUE, TRUE>> }

\* What the id and lock fields read as past the end of rifsc_pdata.risup.
StrayEntries ==
    { [id |-> i, lock |-> FALSE] : i \in 0..NbRisup }
        \cup { [id |-> 0, lock |-> TRUE] }

\* The registers only the TDCID may program are the same in h1 and h2.
GatedSame(h1, h2) == h1.cid = h2.cid /\ h1.lock = h2.lock /\ h1.rimu = h2.rimu

RifscFrame == UNCHANGED notRifsc

\* The registers and the record of a call that ended with outcome r.
RifscReturn(r, call) ==
    /\ rifsc_hw' = r.hw
    /\ rifsc_call' = [call EXCEPT !.res = r.res, !.wr = r.wr,
                         !.hw_same = (r.hw = rifsc_hw),
                         !.gated_same = GatedSame(rifsc_hw, r.hw),
                         !.attr_same = (call.id < NbRisup =>
                                           RisupAttr(r.hw, call.id)
                                              = RisupAttr(rifsc_hw, call.id))]

\* stm32_rifsc_probe
RifscProbe ==
    /\ rifsc_st = "boot"
    /\ \E keep \in BOOLEAN :
          RifscReturn(stm32_rifsc_probe(rifsc_hw, rifsc_pd, keep),
                      [NoCall EXCEPT !.op = "probe",
                          !.cfg = {rifsc_pd.risup[i] :
                                      i \in 1..Len(rifsc_pd.risup)}])
    /\ rifsc_st' = IF rifsc_call'.res = "panic" THEN "panic" ELSE "run"
    /\ UNCHANGED rifsc_pd
    /\ RifscFrame

\* Whether query q names a RISUP the hardware has.
QueryNamesRisup(q) == q.argc = 1 /\ q.risup /\ q.id < NbRisup

\* stm32_rifsc_set_config
RifscSetConfig ==
    /\ rifsc_st = "run"
    /\ rifsc_call.n < MaxCalls
    /\ \E q \in RifscQueries, keep \in BOOLEAN :
          RifscReturn(
              stm32_rifsc_set_config(rifsc_hw, rifsc_pd, q, keep),
              [NoCall EXCEPT !.op = "set_config", !.id = q.id,
                  !.n = rifsc_call.n + 1,
                  !.cfg = IF QueryNamesRisup(q)
                             /\ (rifsc_pd.is_tdcid
                                    \/ rifsc_hw.cid[q.id] = q.cid_attr)
                          THEN {[id |-> q.id, sec |-> q.sec, priv |-> q.priv,
                                 lock |-> q.lock, cid_attr |-> q.cid_attr,
                                 pm_sem |-> FALSE]}
                          ELSE {},
                  !.locked = QueryNamesRisup(q) /\ TestBit(rifsc_hw.lock, q.id),
                  !.differs = QueryNamesRisup(q)
                                 /\ RisupAttr(rifsc_hw, q.id)
                                       # <<q.sec, q.priv, q.cid_attr>>])
    /\ UNCHANGED <<rifsc_st, rifsc_pd>>
    /\ RifscFrame

\* stm32_rifsc_reconfigure_risup returned r.
ReconfigureReturn(r, call) ==
    /\ RifscReturn(r, [call EXCEPT !.cfg = r.cfg, !.pd_same = (r.pd = rifsc_pd)])
    /\ rifsc_pd' = r.pd

\* stm32_rifsc_reconfigure_risup
RifscReconfigureRisup ==
    /\ rifsc_st = "run"
    /\ rifsc_call.n < MaxCalls
    /\ \E risup_id \in 0..(NbRisup + 1), a \in ReconfigureArgs,
          keep \in BOOLEAN, g \in StrayEntries :
          ReconfigureReturn(
              stm32_rifsc_reconfigure_risup(rifsc_hw, rifsc_pd, risup_id,
                                            a[1], a[2], a[3], a[4], keep, g),
              [NoCall EXCEPT !.op = "reconfigure", !.id = risup_id,
                  !.arg = a[1], !.n = rifsc_call.n + 1,
                  !.locked = risup_id < NbRisup
                                /\ TestBit(rifsc_hw.lock, risup_id)])
    /\ UNCHANGED rifsc_st
    /\ RifscFrame

\* Compartment 2 takes the semaphore of a RISUP.
RifscOtherAcquire ==
    /\ rifsc_st \in {"boot", "run"}
    /\ \E id \in RisupIds :
          /\ ~SemTaken(rifsc_hw.sem[id])
          /\ HwSemAllowed(rifsc_hw, id, 2)
          /\ rifsc_hw' = [rifsc_hw EXCEPT !.sem[id] =
                HwSemcrWrite(@, 2, _SEMCR_MUTEX, TRUE, FALSE, FALSE)]
    /\ UNCHANGED <<rifsc_st, rifsc_pd, rifsc_call>>
    /\ RifscFrame

\* Compartment 2 releases the semaphore it holds.
RifscOtherRelease ==
    /\ rifsc_st \in {"boot", "run"}
    /\ \E id \in RisupIds, keep \in BOOLEAN :
          /\ HeldBy(rifsc_hw.sem[id], 2)
          /\ rifsc_hw' = [rifsc_hw EXCEPT !.sem[id] =
                HwSemcrWrite(@, 2, 0, TRUE, keep, FALSE)]
    /\ UNCHANGED <<rifsc_st, rifsc_pd, rifsc_call>>
    /\ RifscFrame

\* Access queries: a RISUP id with the flags and the CID to check, a RIMU
\* id, and queries with no or two arguments.
RifscAccessQueries ==
    { [argc |-> 1, risup |-> TRUE, id |-> id, sec |-> f, priv |-> f,
       cid |-> c] : id \in RisupIds, f \in BOOLEAN, c \in {RIF_CID1, 3} }
    \cup
    { [argc |-> n, risup |-> n = 2, id |-> 0, sec |-> TRUE, priv |-> TRUE,
       cid |-> RIF_CID1] : n \in 0..2 }

\* acquire_access reads the id only.
RifscAcquireQueries ==
    {q \in RifscAccessQueries : q.sec /\ q.cid = RIF_CID1}

\* The record of an access query q made after the call rifsc_call.
RifscAccessCall(op, q) ==
    [NoCall EXCEPT !.op = op, !.id = q.id, !.arg = q.cid, !.cfg = {q},
        !.n = MaxCalls + 1,
        !.locked = rifsc_call.op \in {"probe", "set_config"}
                      /\ rifsc_call.res = TEE_SUCCESS
                      /\ \E c \in rifsc_call.cfg : c.id = q.id]

\* firewall check_access, after the probe or after a set_config
RifscCheckAccess ==
    /\ rifsc_st = "run"
    /\ rifsc_call.op \in {"probe", "set_config"}
    /\ \E q \in RifscAccessQueries :
          RifscReturn([hw |-> rifsc_hw,
                       res |-> stm32_rifsc_check_access(rifsc_hw, q),
                       wr |-> {}],
                      RifscAccessCall("check_access", q))
    /\ UNCHANGED <<rifsc_st, rifsc_pd>>
    /\ RifscFrame

\* firewall acquire_access
RifscAcquireAccess ==
    /\ rifsc_st = "run"
    /\ rifsc_call.op \in {"probe", "set_config"}
    /\ \E q \in RifscAcquireQueries :
          RifscReturn(stm32_rifsc_acquire_access(rifsc_hw, q),
                      RifscAccessCall("acquire_access", q))
    /\ UNCHANGED <<rifsc_st, rifsc_pd>>
    /\ RifscFrame

RifscNext ==
    \/ RifscProbe
    \/ RifscSetConfig
    \/ RifscReconfigureRisup
    \/ RifscCheckAccess
    \/ RifscAcquireAccess
    \/ RifscOtherAcquire
    \/ RifscOtherRelease

SpecRifsc == RifscInit /\ [][RifscNext]_vars

\* The last RIFSC call applied RISUP configurations and returned success
\* while OP-TEE is not the TDCID.
NonTdcidApplied ==
    /\ rifsc_st = "run"
    /\ ~rifsc_pd.is_tdcid
    /\ rifsc_call.op \in {"probe", "set_config", "reconfigure"}
    /\ rifsc_call.res = TEE_SUCCESS

SemModeCfg(c) == TestBit(c.cid_attr, 0) /\ TestBit(c.cid_attr, 1)

WhiteLists1(c) == TestBit(c.cid_attr, _CIDCFGR_SEMWL_SHIFT + RIF_CID1)

\* C6 as stated: after stm32_risup_cfg returns success while OP-TEE is not
\* the TDCID, every RISUP whose applied CID configuration has filtering and
\* semaphore mode enabled has its semaphore held by compartment 1 if
\* compartment 1 is white-listed, and not held by compartment 1 if it is not.
C6_SemSettled_AsStated ==
    NonTdcidApplied =>
        \A c \in rifsc_call.cfg :
            SemModeCfg(c) =>
                (HeldBy(rifsc_hw.sem[c.id], RIF_CID1) <=> WhiteLists1(c))

\* C6 (amended): after stm32_risup_cfg returns success while OP-TEE is not
\* the TDCID, every RISUP whose applied CID configuration has filtering and
\* semaphore mode enabled has its semaphore held by compartment 1 if
\* compartment 1 is white-listed and the RISUP's SECCFGR bit reads secure,
\* and not held by compartment 1 otherwise.
C6_SemSettled ==
    NonTdcidApplied =>
        \A c \in rifsc_call.cfg :
            SemModeCfg(c) =>
                (HeldBy(rifsc_hw.sem[c.id], RIF_CID1)
                    <=> (WhiteLists1(c) /\ TestBit(rifsc_hw.sec, c.id)))

\* A probe that took the semaphore of a secure white-listing RISUP and left
\* that of a non-secure white-listing RISUP free.
C6_Witness ==
    /\ NonTdcidApplied
    /\ rifsc_call.op = "probe"
    /\ \E c \in rifsc_call.cfg :
          /\ SemModeCfg(c) /\ WhiteLists1(c) /\ TestBit(rifsc_hw.sec, c.id)
          /\ HeldBy(rifsc_hw.sem[c.id], RIF_CID1)
    /\ \E c \in rifsc_call.cfg :
          /\ SemModeCfg(c) /\ WhiteLists1(c) /\ ~TestBit(rifsc_hw.sec, c.id)
          /\ ~HeldBy(rifsc_hw.sem[c.id], RIF_CID1)

\* C7: when OP-TEE is not the TDCID, stm32_risup_setup (probe) and set_config
\* write no CIDCFGR, no configuration-lock bit and no RIMU attribute (these
\* registers are the same after the call), while every RISUP configuration
\* they apply still writes the security and privilege bits the hardware
\* implements and still acquires or releases the semaphore.
C7_TdcidGating ==
    (rifsc_call.op \in {"probe", "set_config"} /\ ~rifsc_pd.is_tdcid) =>
        /\ rifsc_call.wr \cap {"CIDCFGR", "LOCK", "RIMU"} = {}
        /\ rifsc_call.gated_same
        /\ rifsc_call.cfg # {} =>
              /\ rifsc_pd.sec_en => "SEC" \in rifsc_call.wr
              /\ rifsc_pd.priv_en => "PRIV" \in rifsc_call.wr
              /\ rifsc_call.wr \cap {"SEM_ACQ", "SEM_REL"} # {}

\* A set_config that asks for the lock while OP-TEE is not the TDCID: the
\* security and privilege bits are written and the semaphore is acquired.
C7_Witness ==
    /\ rifsc_call.op = "set_config" /\ ~rifsc_pd.is_tdcid
    /\ rifsc_call.res = TEE_SUCCESS
    /\ \E c \in rifsc_call.cfg : c.lock /\ c.cid_attr # 0
    /\ {"SEC", "PRIV", "SEM_ACQ"} \subseteq rifsc_call.wr

\* C8 as stated: once a RISUP has been configured with lock=true, a later
\* set_config for it that requests a different security, privilege or CID
\* attribute returns AccessDenied, and the RISUP's security, privilege and
\* CID registers keep their locked values.
C8_LockedSetConfigDenied ==
    (rifsc_call.op = "set_config" /\ rifsc_pd.is_tdcid
        /\ rifsc_call.locked /\ rifsc_call.differs) =>
        /\ rifsc_call.res = TEE_ERROR_ACCESS_DENIED
        /\ rifsc_call.attr_same

\* C9 as stated: stm32_rifsc_reconfigure_risup on a RISUP whose lock bit is
\* set returns AccessDenied and has modified neither a hardware register nor
\* the stored RISUP configuration.
C9_LockedReconfigure_AsStated ==
    (rifsc_call.op = "reconfigure" /\ rifsc_call.locked) =>
        /\ rifsc_call.res = TEE_ERROR_ACCESS_DENIED
        /\ rifsc_call.hw_same /\ rifsc_call.pd_same

\* C9 (amended): stm32_rifsc_reconfigure_risup on a RISUP whose lock bit is
\* set modifies neither a hardware register nor the stored RISUP
\* configuration; it returns AccessDenied when the cid argument is at most
\* MAX_CID_SUPPORTED and BadParameters when it is larger.
C9_LockedReconfigure ==
    (rifsc_call.op = "reconfigure" /\ rifsc_call.locked) =>
        /\ rifsc_call.res = IF rifsc_call.arg > MAX_CID_SUPPORTED
                            THEN TEE_ERROR_BAD_PARAMETERS
                            ELSE TEE_ERROR_ACCESS_DENIED
        /\ rifsc_call.hw_same /\ rifsc_call.pd_same

\* A locked RISUP listed in the device tree refuses a reconfiguration.
C9_Witness ==
    /\ rifsc_call.op = "reconfigure" /\ rifsc_call.locked
    /\ rifsc_call.res = TEE_ERROR_ACCESS_DENIED
    /\ rifsc_call.id + 1 <= Len(rifsc_pd.risup)
    /\ rifsc_pd.is_tdcid

(***************************************************************************)
(* RISAF (stm32_risaf.c): the st,protreg cell, the geometry checks of a    *)
(* region and the region registers.                                        *)
(***************************************************************************)
TEE_ERROR_NOT_SUPPORTED == "TEE_ERROR_NOT_SUPPORTED"

\* Width of uintptr_t and size_t in the model.
AddrBits == 14

\* Entries of the memory-region list of the RISAF node.
NRegions == 3

\* uintptr_t / size_t arithmetic wraps at the machine word.
UPtr(x) == x % (2 ^ AddrBits)

\* (x & mask) >> shift for a field of the given width.
DtField(x, shift, width) == (x \div (2 ^ shift)) % (2 ^ width)

_RISAF_REG_CFGR_BREN == 1

_RISAF_REG_CFGR_SEC == 256

\* Builds other than CFG_STM32MP21.
_RISAF_REG_CFGR_ENC == 32768

_RISAF_REG_CFGR_ALL_MASK ==
    _RISAF_REG_CFGR_BREN + _RISAF_REG_CFGR_SEC + _RISAF_REG_CFGR_ENC
    + GENMASK_32(23, 16)

_RISAF_REG_CIDCFGR_ALL_MASK == GENMASK_32(7, 0) + GENMASK_32(23, 16)

\* The st,protreg cell as the dt-bindings compose it: region id in bits 3:0,
\* enable bit 4, secure bit 5, encryption bits 7:6, privileged CIDs 15:8,
\* read CIDs 23:16, write CIDs 31:24.
DT_RISAF_PROT(id, en, sec, enc, priv, rdcid, wrcid) ==
    id + en * BIT(4) + sec * BIT(5) + enc * BIT(6) + priv * BIT(8)
    + rdcid * BIT(16) + wrcid * BIT(24)

_RISAF_GET_REGION_ID(cfg) == DtField(cfg, 0, 4)

_RISAF_GET_REGION_CFG(cfg) ==
    DtField(cfg, 4, 1) * _RISAF_REG_CFGR_BREN
    + DtField(cfg, 5, 1) * _RISAF_REG_CFGR_SEC
    + DtField(cfg, 7, 1) * _RISAF_REG_CFGR_ENC
    + DtField(cfg, 8, 8) * BIT(16)

_RISAF_GET_REGION_CID_CFG(cfg) ==
    DtField(cfg, 24, 8) * BIT(16) + DtField(cfg, 16, 8)

\* The 'op_tee' region OP-TEE executes from (platform configuration).
TZDRAM_BASE == 8

TZDRAM_RESERVED_SIZE == 2

\* end_paddr = mem_base + (mem_size - 1U)
RisafEndPaddr(pd) == UPtr(pd.mem_base + UPtr(pd.mem_size + 2 ^ AddrBits - 1))

risaf_check_region_boundaries_NoLenGranularity(pd, region) ==
    IF region.addr < pd.mem_base THEN TEE_ERROR_BAD_PARAMETERS
    ELSE IF \/ region.addr > RisafEndPaddr(pd)
            \/ UPtr(UPtr(region.addr + 2 ^ AddrBits - 1) + region.len)
               > RisafEndPaddr(pd)
    THEN TEE_ERROR_BAD_PARAMETERS
    ELSE IF pd.granularity = 0 \/ region.addr % pd.granularity # 0
    THEN TEE_ERROR_BAD_PARAMETERS
    ELSE TEE_SUCCESS

risaf_check_region_boundaries(pd, region) ==
    IF region.addr < pd.mem_base THEN TEE_ERROR_BAD_PARAMETERS
    ELSE IF \/ region.addr > RisafEndPaddr(pd)
            \/ UPtr(UPtr(region.addr + 2 ^ AddrBits - 1) + region.len)
               > RisafEndPaddr(pd)
    THEN TEE_ERROR_BAD_PARAMETERS
    ELSE IF \/ pd.granularity = 0
            \/ region.addr % pd.granularity # 0
            \/ region.len % pd.granularity # 0
    THEN TEE_ERROR_BAD_PARAMETERS
    ELSE TEE_SUCCESS

\* core_is_buffer_intersect (core memory layer): buffer b meets area a; an
\* end address past the machine word counts as meeting.
core_is_buffer_intersect(b, bl, a, al) ==
    \/ b + bl - 1 >= 2 ^ AddrBits
    \/ a + al - 1 >= 2 ^ AddrBits
    \/ ~(b > a + al - 1 \/ b + bl - 1 < a)

risaf_check_overlap_PreviousOnly(region, index) ==
    IF \E i \in {index - 1} \cap DOMAIN region :
          /\ region[i].cfg # 0
          /\ core_is_buffer_intersect(region[index].addr, region[index].len,
                                      region[i].addr, region[i].len)
    THEN TEE_ERROR_GENERIC
    ELSE TEE_SUCCESS

risaf_check_overlap(region, index) ==
    IF \E i \in 1..(index - 1) :
          /\ region[i].cfg # 0
          /\ core_is_buffer_intersect(region[index].addr, region[index].len,
                                      region[i].addr, region[i].len)
    THEN TEE_ERROR_GENERIC
    ELSE TEE_SUCCESS

\* What risaf_configure_region returns once the registers are written.
RisafConfigureResult(pd, cfg) ==
    IF BitAnd(cfg, _RISAF_REG_CFGR_ENC) = 0 THEN TEE_SUCCESS
    ELSE IF ~pd.enc_supported THEN TEE_ERROR_GENERIC
    ELSE IF TestBit(cfg, 14) THEN TEE_ERROR_NOT_SUPPORTED
    ELSE IF BitAnd(cfg, _RISAF_REG_CFGR_SEC) # _RISAF_REG_CFGR_SEC
    THEN TEE_ERROR_GENERIC
    ELSE TEE_SUCCESS

\* risaf_configure_region: [hw, res]
risaf_configure_region(hw, pd, region_id, cfg, cid_cfg, saddr, eaddr) ==
    [hw |-> [hw EXCEPT ![region_id] =
                [cfgr |-> ClrSetBits(BitClr(@.cfgr, _RISAF_REG_CFGR_BREN),
                                     _RISAF_REG_CFGR_ALL_MASK,
                                     BitAnd(cfg, _RISAF_REG_CFGR_ALL_MASK)),
                 startr |-> ClrSetBits(@.startr, pd.mask_regions,
                               BitAnd(UPtr(saddr + 2 ^ AddrBits - pd.mem_base),
                                      pd.mask_regions)),
                 endr |-> ClrSetBits(@.endr, pd.mask_regions,
                               BitAnd(UPtr(eaddr + 2 ^ AddrBits - pd.mem_base),
                                      pd.mask_regions)),
                 cidcfgr |-> ClrSetBits(@.cidcfgr, _RISAF_REG_CIDCFGR_ALL_MASK,
                               BitAnd(cid_cfg, _RISAF_REG_CIDCFGR_ALL_MASK))]],
     res |-> RisafConfigureResult(pd, cfg)]

\* stm32_risaf_probe, one memory-region entry e: the entries the loop leaves.
RisafSkips(e) ==
    \/ ~e.ph
    \/ e.len = 0
    \/ (e.addr = TZDRAM_BASE /\ e.len = TZDRAM_RESERVED_SIZE)
    \/ ~e.prot

\* regions[i] after the iteration on entry e (the array comes from calloc).
RisafLoadRegion(e) ==
    [addr |-> IF e.ph THEN e.addr ELSE 0,
     len |-> IF e.ph THEN e.len ELSE 0,
     cfg |-> IF RisafSkips(e) THEN 0 ELSE e.cell]

\* How the iteration on entry e goes on: "skip", the check that panics, or
\* "configure" when risaf_configure_region is called.
RisafRegionVerdict(pd, e, regions, i) ==
    IF RisafSkips(e) THEN "skip"
    ELSE IF risaf_check_region_boundaries(pd, regions[i]) # TEE_SUCCESS
    THEN "boundaries"
    ELSE IF risaf_check_overlap(regions, i) # TEE_SUCCESS THEN "overlap"
    ELSE IF _RISAF_GET_REGION_ID(regions[i].cfg) >= pd.max_base_regions
    THEN "assert"
    ELSE "configure"

\* stm32_risaf_init_ddata from the HWCFGR fields CFG1 (base regions), CFG3
\* (log2 of the granularity) and CFG4 (address width above it).
stm32_risaf_init_ddata(cfg1, cfg3, cfg4) ==
    [mask_regions |-> GENMASK_32(cfg3 + cfg4 - 1, cfg3),
     max_base_regions |-> cfg1,
     granularity |-> BIT(cfg3)]

(***************************************************************************)
(* SpecRisaf: stm32_risaf_probe on one RISAF instance, one memory-region   *)
(* entry at a time.                                                        *)
(***************************************************************************)
\* The memory the instance protects (st,mem-map) and what HWCFGR reports.
RisafPdata ==
    [mem_base |-> 4, mem_size |-> 8, enc_supported |-> TRUE]
    @@ stm32_risaf_init_ddata(NRegions + 1, 1, AddrBits - 1)

\* The st,protreg cell of the entry at position k: region id k, enabled,
\* read and write for CID 1; secure, or encrypted and non-secure.
RisafCellOf(k, kind) ==
    IF kind = "sec" THEN DT_RISAF_PROT(k, 1, 1, 0, 0, 2, 2)
    ELSE IF kind = "enc_ns" THEN DT_RISAF_PROT(k, 1, 0, 2, 0, 2, 2)
    ELSE 0

\* Nodes a memory-region entry can point to: reserved-memory nodes with an
\* st,protreg property, one without, one encrypted non-secure, one off the
\* granularity, and a phandle that does not resolve.
RisafShapes ==
    [ph : {TRUE}, addr : {2, 4, 6, 8, 10}, len : {0, 2, 4}, kind : {"sec"}]
    \cup {[ph |-> TRUE, addr |-> 4, len |-> 2, kind |-> "none"],
          [ph |-> TRUE, addr |-> 6, len |-> 2, kind |-> "enc_ns"],
          [ph |-> TRUE, addr |-> 5, len |-> 2, kind |-> "sec"],
          [ph |-> FALSE, addr |-> 0, len |-> 0, kind |-> "none"]}

RisafEntry(k, sh) ==
    [ph |-> sh.ph, addr |-> sh.addr, len |-> sh.len,
     prot |-> sh.kind # "none", cell |-> RisafCellOf(k, sh.kind)]

RisafDts ==
    {[list |-> [k \in 1..NRegions |-> RisafEntry(k, f[k])],
      is_tdcid |-> t, pd |-> RisafPdata] :
        f \in [1..NRegions -> RisafShapes], t \in BOOLEAN}

\* Region registers out of reset.
RisafHwReset ==
    [id \in 1..(RisafPdata.max_base_regions - 1) |->
        [cfgr |-> 0, startr |-> 0, endr |-> 0, cidcfgr |-> 0]]

RisafInit ==
    /\ SemIdle /\ ChkIdle /\ RifscIdle /\ BndIdle /\ EtzpcIdle
    /\ fw = "risaf" /\ PwrIdle /\ PrsIdle /\ HpdmaIdle /\ RprocIdle
    /\ risaf_dt \in RisafDts
    /\ risaf_drv = [st |-> "boot", i |-> 0, regions |-> <<>>, why |-> "none",
                    written |-> {}]
    /\ risaf_hw = RisafHwReset

RisafFrame == UNCHANGED notRisaf

\* The probe up to the region loop: a compartment other than the TDCID
\* returns at once; the TDCID allocates the zeroed regions array.
RisafProbeEnter ==
    /\ risaf_drv.st = "boot"
    /\ risaf_drv' =
         IF ~risaf_dt.is_tdcid
         THEN [risaf_drv EXCEPT !.st = "done"]
         ELSE [risaf_drv EXCEPT
                 !.st = "loop", !.i = 1,
                 !.regions = [k \in 1..Len(risaf_dt.list) |->
                                 [addr |-> 0, len |-> 0, cfg |-> 0]]]
    /\ UNCHANGED <<risaf_dt, risaf_hw>>
    /\ RisafFrame

\* risaf_configure_region returned c for regions[i].
RisafConfigured(i, regions, c) ==
    /\ risaf_hw' = c.hw
    /\ risaf_drv' =
         IF c.res = TEE_SUCCESS
         THEN [risaf_drv EXCEPT !.regions = regions, !.i = i + 1,
                                !.written = @ \cup {i}]
         ELSE [risaf_drv EXCEPT !.regions = regions, !.st = "panic",
                                !.why = "configure", !.written = @ \cup {i}]

RisafSettle(i, regions, v) ==
    IF v = "skip"
    THEN /\ risaf_drv' = [risaf_drv EXCEPT !.regions = regions, !.i = i + 1]
         /\ UNCHANGED risaf_hw
    ELSE IF v # "configure"
    THEN /\ risaf_drv' = [risaf_drv EXCEPT !.regions = regions,
                                           !.st = "panic", !.why = v]
         /\ UNCHANGED risaf_hw
    ELSE RisafConfigured(i, regions,
            risaf_configure_region(
                risaf_hw, risaf_dt.pd,
                _RISAF_GET_REGION_ID(regions[i].cfg),
                _RISAF_GET_REGION_CFG(regions[i].cfg),
                _RISAF_GET_REGION_CID_CFG(regions[i].cfg),
                regions[i].addr,
                UPtr(UPtr(regions[i].addr + regions[i].len)
                     + 2 ^ AddrBits - 1)))

\* The iteration once regions[i] is loaded.
RisafLoaded(i, regions) ==
    RisafSettle(i, regions,
                RisafRegionVerdict(risaf_dt.pd, risaf_dt.list[i], regions, i))

\* One iteration of the region loop.
RisafProbeRegion ==
    /\ risaf_drv.st = "loop"
    /\ risaf_drv.i <= Len(risaf_dt.list)
    /\ RisafLoaded(risaf_drv.i,
                   [risaf_drv.regions EXCEPT
                       ![risaf_drv.i] =
                           RisafLoadRegion(risaf_dt.list[risaf_drv.i])])
    /\ UNCHANGED risaf_dt
    /\ RisafFrame

\* The loop is over: the controller is registered and the probe returns.
RisafProbeLeave ==
    /\ risaf_drv.st = "loop"
    /\ risaf_drv.i > Len(risaf_dt.list)
    /\ risaf_drv' = [risaf_drv EXCEPT !.st = "done"]
    /\ UNCHANGED <<risaf_dt, risaf_hw>>
    /\ RisafFrame

RisafNext ==
    \/ RisafProbeEnter
    \/ RisafProbeRegion
    \/ RisafProbeLeave

SpecRisaf == RisafInit /\ [][RisafNext]_vars

\* The probe loads a protection configuration for entry i of the list:
\* the entry is none of those the region loop skips.
RisafCarries(i) == RisafLoadRegion(risaf_dt.list[i]).cfg # 0

\* The node entry i points to has a length and an st,protreg property.
RisafDtCarries(i) ==
    risaf_dt.list[i].ph /\ risaf_dt.list[i].len # 0 /\ risaf_dt.list[i].prot

\* The intervals [base, base + length) of entries i and j intersect.
RisafIntersect(i, j) ==
    /\ risaf_dt.list[i].addr < risaf_dt.list[j].addr + risaf_dt.list[j].len
    /\ risaf_dt.list[j].addr < risaf_dt.list[i].addr + risaf_dt.list[i].len

\* The registers of the region entry j names hold their reset values.
RisafUnwritten(j) ==
    /\ j \notin risaf_drv.written
    /\ risaf_hw[_RISAF_GET_REGION_ID(risaf_dt.list[j].cell)]
         = RisafHwReset[_RISAF_GET_REGION_ID(risaf_dt.list[j].cell)]

\* The probe is aborted at entry j or before it, on the overlap error when
\* it gets as far as risaf_check_overlap on entry j, and region j is never
\* written.
RisafAbortsBy(j) ==
    /\ RisafUnwritten(j)
    /\ risaf_drv.st # "done"
    /\ risaf_drv.st = "loop" => risaf_drv.i <= j
    /\ risaf_drv.st = "panic" =>
         /\ risaf_drv.i <= j
         /\ (/\ risaf_drv.i = j
             /\ risaf_check_region_boundaries(
                    risaf_dt.pd, risaf_drv.regions[j]) = TEE_SUCCESS)
            => risaf_drv.why = "overlap"

\* C10 as stated: for any two entries i < j of the memory-region list whose
\* nodes carry a protection configuration and whose intervals intersect, the
\* probe is aborted with the overlap error and region j is never written.
C10_OverlapAborts_AsStated ==
    \A i, j \in 1..NRegions :
        (i < j /\ RisafDtCarries(i) /\ RisafDtCarries(j)
         /\ RisafIntersect(i, j))
        => RisafAbortsBy(j)

\* C10: when the TDCID probes a RISAF whose memory-region list holds two
\* entries i < j that the region loop does not skip (the phandle resolves,
\* the length is not zero, the node is not the op_tee region and has an
\* st,protreg property) and whose intervals intersect, the loop never ends
\* normally: it panics at entry j or before it, the panic at entry j comes
\* from risaf_check_overlap unless entry j already fails the boundary check,
\* and the registers of region j are never written.  A compartment other
\* than the TDCID returns from the probe with every region register at its
\* reset value, whatever the list holds.
C10_OverlapAborts ==
    /\ \A i, j \in 1..NRegions :
          (risaf_dt.is_tdcid /\ i < j /\ RisafCarries(i) /\ RisafCarries(j)
           /\ RisafIntersect(i, j))
          => RisafAbortsBy(j)
    /\ ~risaf_dt.is_tdcid =>
          /\ risaf_drv.st \in {"boot", "done"}
          /\ risaf_hw = RisafHwReset /\ risaf_drv.written = {}

\* The third entry lies below the first and meets it, the second entry is
\* accepted in between and meets neither: the probe panics on the overlap,
\* with the first two regions written.
C10_Witness ==
    /\ risaf_drv.st = "panic" /\ risaf_drv.why = "overlap" /\ risaf_drv.i = 3
    /\ RisafCarries(1) /\ RisafCarries(2) /\ RisafIntersect(1, 3)
    /\ ~RisafIntersect(2, 3)
    /\ risaf_dt.list[3].addr < risaf_dt.list[1].addr
    /\ risaf_dt.is_tdcid
    /\ risaf_drv.written = {1, 2}
    /\ risaf_hw[1].cfgr # 0

(***************************************************************************)
(* SpecBnd: risaf_check_region_boundaries on one region of one RISAF       *)
(* instance, for the granularities stm32_risaf_init_ddata can report.      *)
(***************************************************************************)
\* Largest HWCFGR CFG3 value taken: granularities 1 .. 2 ^ MaxGranLog.
MaxGranLog == 12

\* The word range.
BndTop == 2 ^ AddrBits

\* st,mem-map of the instance for granularity g: at the bottom of the
\* address space, above it, or ending with the last address of the word.
BndMemBases(g) == {0, g, BndTop - 2 * g}

BndMemSizes(g) == {g, 2 * g}

\* Region bases: on and off the granularity, below, inside and above the
\* memory, up to the last addresses of the word.
BndAddrs(g) ==
    {a + o : a \in {0, g, 2 * g, 3 * g, BndTop - 2 * g, BndTop - g},
             o \in {0, 1, g - 1}} \cap 0..(BndTop - 1)

\* Region lengths (never 0: the probe skips such entries): on and off the
\* granularity, up to lengths only a word as wide as the address can hold.
BndLens(g) ==
    {l + o : l \in {g, 2 * g, 3 * g, BndTop - 2 * g, BndTop - g},
             o \in {0, 1}} \cap 1..(BndTop - 1)

BndInputs(k) ==
    [pd : {[mem_base |-> b, mem_size |-> m, enc_supported |-> FALSE]
           @@ stm32_risaf_init_ddata(NRegions + 1, k, AddrBits - k) :
              b \in BndMemBases(BIT(k)), m \in BndMemSizes(BIT(k))},
     region : [addr : BndAddrs(BIT(k)), len : BndLens(BIT(k)), cfg : {1}],
     res : {"none"}]

BndInit ==
    /\ SemIdle /\ ChkIdle /\ RifscIdle /\ RisafIdle /\ EtzpcIdle
    /\ fw = "bnd" /\ PwrIdle /\ PrsIdle /\ HpdmaIdle /\ RprocIdle
    /\ \E k \in 0..MaxGranLog : bnd \in BndInputs(k)

BndCheck ==
    /\ bnd.res = "none"
    /\ bnd' = [bnd EXCEPT
                 !.res = risaf_check_region_boundaries(bnd.pd, bnd.region)]
    /\ UNCHANGED notBnd

BndNext == BndCheck

SpecBnd == BndInit /\ [][BndNext]_vars

\* As mathematical integers: the region starts at or above the memory base
\* and its last address does not pass the last address of the memory.
BndInsideSpan ==
    /\ bnd.pd.mem_base <= bnd.region.addr
    /\ bnd.region.addr + bnd.region.len - 1
         <= bnd.pd.mem_base + bnd.pd.mem_size - 1

BndAligned ==
    /\ bnd.region.addr % bnd.pd.granularity = 0
    /\ bnd.region.len % bnd.pd.granularity = 0

\* C11: risaf_check_region_boundaries returns success only for a region
\* that, as mathematical integers, starts at or above mem_base and ends at
\* or below mem_base + mem_size - 1; a region whose addr + len passes the
\* word range is not accepted.
C11_AcceptsOnlyInsideSpan ==
    bnd.res = TEE_SUCCESS => BndInsideSpan

\* C12: for every granularity 2 ^ k, k in 0 .. MaxGranLog, the call returns
\* BadParameters for every region whose base or length is not a multiple of
\* the granularity, and success for every region inside the memory span
\* whose base and length are both multiples of it.
C12_GranularityEnforced ==
    bnd.res # "none" =>
        /\ ~BndAligned => bnd.res = TEE_ERROR_BAD_PARAMETERS
        /\ (BndAligned /\ BndInsideSpan) => bnd.res = TEE_SUCCESS

\* Granularity 4096: a region inside the memory, on the granularity with
\* its base but not with its length, is refused.
C12_Witness ==
    /\ bnd.res = TEE_ERROR_BAD_PARAMETERS
    /\ bnd.pd.granularity = 4096
    /\ BndInsideSpan
    /\ bnd.region.addr % 4096 = 0 /\ bnd.region.len % 4096 # 0

(***************************************************************************)
(* ETZPC (stm32_etzpc.c): DECPROT attributes and locks, TZMA sizes.        *)
(***************************************************************************)
ETZPC_DECPROT_S_RW == 0

ETZPC_DECPROT_NS_R_S_W == 1

ETZPC_DECPROT_MCU_ISOLATION == 2

ETZPC_DECPROT_NS_RW == 3

ETZPC_DECPROT_MAX == 4


PERIPH_PM_LOCK_BIT == 128

PERIPH_PM_ATTR_MASK == 7

TZMA_PM_LOCK_BIT == 32768

TZMA_PM_VALUE_MASK == 1023

SMALL_PAGE_SIZE == 4096

\* The firewall argument as the dt-bindings DECPROT(id, mode, lock) compose
\* it: id in bits 7:0, lock in bit 8, mode above it.
DECPROT(id, mode, lock) == id + lock * BIT(8) + mode * BIT(9)

\* args[0] & ETZPC_ID_MASK, (args[0] & ETZPC_MODE_MASK) >> ETZPC_MODE_SHIFT,
\* args[0] & ETZPC_LOCK_MASK.
EtzpcArgId(arg) == arg % BIT(8)

EtzpcArgMode(arg) == (arg \div BIT(9)) % 4

EtzpcArgLock(arg) == TestBit(arg, 8)

\* etzpc_binding2decprot: the attribute of a binding mode; ETZPC_DECPROT_MAX
\* stands for the default case, which panics.  The MCU isolation mode is
\* known to CFG_STM32MP15 builds only.
etzpc_binding2decprot(mode, mp15) ==
    IF mode = 0 THEN ETZPC_DECPROT_S_RW
    ELSE IF mode = 1 THEN ETZPC_DECPROT_NS_R_S_W
    ELSE IF mode = 2 /\ mp15 THEN ETZPC_DECPROT_MCU_ISOLATION
    ELSE IF mode = 3 THEN ETZPC_DECPROT_NS_RW
    ELSE ETZPC_DECPROT_MAX

\* The registers: decprot[id] is the two-bit field of peripheral id in
\* DECPROTx, lock[id] its bit in DECPROT_LOCKx, tzma[n] the word TZMAn_SIZE.
\* A locked field or word ignores writes until the next reset.
etzpc_do_configure_decprot(hw, id, attr) ==
    IF hw.lock[id] THEN hw ELSE [hw EXCEPT !.decprot[id] = attr % 4]

etzpc_do_get_decprot(hw, id) == hw.decprot[id]

etzpc_do_lock_decprot(hw, id) == [hw EXCEPT !.lock[id] = TRUE]

decprot_is_locked(hw, id) == hw.lock[id]

\* A TZMA size register is kept as its low half-word hw.tzma (the size
\* field is bits 9:0, the rest reads zero) and its bit 31, ETZPC_TZMA0_SIZE_LOCK,
\* hw.tzma_lock.  io_write32 of a uint16_t value; a locked register ignores
\* the write.
etzpc_do_configure_tzma(hw, tzma_id, value) ==
    IF hw.tzma_lock[tzma_id] THEN hw
    ELSE [hw EXCEPT !.tzma[tzma_id] = (value % 65536) % 1024]

\* The register word as the uint16_t the function returns.
etzpc_do_get_tzma(hw, tzma_id) == hw.tzma[tzma_id] % 65536

etzpc_do_lock_tzma(hw, tzma_id) == [hw EXCEPT !.tzma_lock[tzma_id] = TRUE]

tzma_is_locked(hw, tzma_id) == hw.tzma_lock[tzma_id]

\* stm32_etzpc_check_access on a query of arg_count arguments: the result,
\* or "panic".
EtzpcAccessCompatible(attr, attr_req) ==
    \/ attr = attr_req
    \/ /\ attr_req \in {ETZPC_DECPROT_S_RW, ETZPC_DECPROT_NS_R_S_W}
       /\ attr # ETZPC_DECPROT_MCU_ISOLATION
    \/ /\ attr_req \in {ETZPC_DECPROT_NS_RW, ETZPC_DECPROT_NS_R_S_W}
       /\ attr # ETZPC_DECPROT_MCU_ISOLATION
       /\ attr # ETZPC_DECPROT_S_RW

stm32_etzpc_check_access_SecureAlways(hw, dd, arg_count, arg) ==
    IF arg_count # 1 THEN TEE_ERROR_BAD_PARAMETERS
    ELSE IF etzpc_binding2decprot(EtzpcArgMode(arg), dd.mp15)
            = ETZPC_DECPROT_MAX
    THEN "panic"
    ELSE IF EtzpcArgId(arg) >= dd.num_per_sec THEN TEE_ERROR_BAD_PARAMETERS
    ELSE IF \/ EtzpcAccessCompatible(
                   etzpc_do_get_decprot(hw, EtzpcArgId(arg)),
                   etzpc_binding2decprot(EtzpcArgMode(arg), dd.mp15))
            \/ etzpc_binding2decprot(EtzpcArgMode(arg), dd.mp15)
               = ETZPC_DECPROT_S_RW
    THEN TEE_SUCCESS
    ELSE TEE_ERROR_ACCESS_DENIED

stm32_etzpc_check_access(hw, dd, arg_count, arg) ==
    IF arg_count # 1 THEN TEE_ERROR_BAD_PARAMETERS
    ELSE IF etzpc_binding2decprot(EtzpcArgMode(arg), dd.mp15)
            = ETZPC_DECPROT_MAX
    THEN "panic"
    ELSE IF EtzpcArgId(arg) >= dd.num_per_sec THEN TEE_ERROR_BAD_PARAMETERS
    ELSE IF EtzpcAccessCompatible(
                etzpc_do_get_decprot(hw, EtzpcArgId(arg)),
                etzpc_binding2decprot(EtzpcArgMode(arg), dd.mp15))
    THEN TEE_SUCCESS
    ELSE TEE_ERROR_ACCESS_DENIED

stm32_etzpc_acquire_access(hw, dd, arg_count, arg) ==
    IF arg_count # 1 THEN TEE_ERROR_BAD_PARAMETERS
    ELSE IF EtzpcArgId(arg) >= dd.num_per_sec THEN TEE_ERROR_BAD_PARAMETERS
    ELSE IF etzpc_do_get_decprot(hw, EtzpcArgId(arg))
            \notin {ETZPC_DECPROT_S_RW, ETZPC_DECPROT_NS_R_S_W}
    THEN TEE_ERROR_ACCESS_DENIED
    ELSE TEE_SUCCESS

\* Platform layout (dt-bindings ids, platform_config.h addresses): the
\* internal RAMs that are DECPROT peripherals, and the memories the two
\* TZMA protect (ROM and SYSRAM).
EtzpcRams == 1 :> [base |-> 2097152, size |-> 4 * SMALL_PAGE_SIZE]

EtzpcTzmas ==
    (8 :> [tzma_id |-> 0, base |-> 0, size |-> 32 * SMALL_PAGE_SIZE])
    @@ (9 :> [tzma_id |-> 1, base |-> 1048576, size |-> 64 * SMALL_PAGE_SIZE])

\* A DECPROT request past the argument checks: [hw, res, wr], wr the
\* registers the call wrote.
EtzpcDecprotRequest_NoLockTest(hw, dd, id, arg) ==
    IF etzpc_binding2decprot(EtzpcArgMode(arg), dd.mp15) = ETZPC_DECPROT_MAX
    THEN [hw |-> hw, res |-> "panic", wr |-> {}]
    ELSE IF EtzpcArgLock(arg)
    THEN [hw |-> etzpc_do_lock_decprot(
                    etzpc_do_configure_decprot(
                        hw, id,
                        etzpc_binding2decprot(EtzpcArgMode(arg), dd.mp15)),
                    id),
          res |-> TEE_SUCCESS, wr |-> {"decprot", "lock"}]
    ELSE [hw |-> etzpc_do_configure_decprot(
                    hw, id, etzpc_binding2decprot(EtzpcArgMode(arg), dd.mp15)),
          res |-> TEE_SUCCESS, wr |-> {"decprot"}]

EtzpcDecprotRequest(hw, dd, id, arg) ==
    IF etzpc_binding2decprot(EtzpcArgMode(arg), dd.mp15) = ETZPC_DECPROT_MAX
    THEN [hw |-> hw, res |-> "panic", wr |-> {}]
    ELSE IF decprot_is_locked(hw, id)
    THEN [hw |-> hw,
          res |-> IF etzpc_do_get_decprot(hw, id)
                     # etzpc_binding2decprot(EtzpcArgMode(arg), dd.mp15)
                  THEN TEE_ERROR_ACCESS_DENIED ELSE TEE_SUCCESS,
          wr |-> {}]
    ELSE IF EtzpcArgLock(arg)
    THEN [hw |-> etzpc_do_lock_decprot(
                    etzpc_do_configure_decprot(
                        hw, id,
                        etzpc_binding2decprot(EtzpcArgMode(arg), dd.mp15)),
                    id),
          res |-> TEE_SUCCESS, wr |-> {"decprot", "lock"}]
    ELSE [hw |-> etzpc_do_configure_decprot(
                    hw, id, etzpc_binding2decprot(EtzpcArgMode(arg), dd.mp15)),
          res |-> TEE_SUCCESS, wr |-> {"decprot"}]

EtzpcRefuse(hw, res) == [hw |-> hw, res |-> res, wr |-> {}]

\* stm32_etzpc_configure (builds without the pager): [hw, res, wr]
stm32_etzpc_configure(hw, dd, arg_count, arg) ==
    IF arg_count # 1 THEN EtzpcRefuse(hw, TEE_ERROR_BAD_PARAMETERS)
    ELSE IF EtzpcArgId(arg) < dd.num_per_sec
    THEN EtzpcDecprotRequest(hw, dd, EtzpcArgId(arg), arg)
    ELSE EtzpcRefuse(hw, TEE_ERROR_BAD_PARAMETERS)

\* A TZMA request on the memory m past the id test: [hw, res, wr]
EtzpcTzmaRequest_NoLockTest(hw, m, paddr, size) ==
    IF paddr # m.base \/ size > m.size
    THEN EtzpcRefuse(hw, TEE_ERROR_BAD_PARAMETERS)
    ELSE IF size % SMALL_PAGE_SIZE # 0
    THEN EtzpcRefuse(hw, TEE_ERROR_BAD_PARAMETERS)
    ELSE [hw |-> etzpc_do_configure_tzma(hw, m.tzma_id,
                                         size \div SMALL_PAGE_SIZE),
          res |-> TEE_SUCCESS, wr |-> {"tzma"}]

EtzpcTzmaRequest(hw, m, paddr, size) ==
    IF paddr # m.base \/ size > m.size
    THEN EtzpcRefuse(hw, TEE_ERROR_BAD_PARAMETERS)
    ELSE IF size % SMALL_PAGE_SIZE # 0
    THEN EtzpcRefuse(hw, TEE_ERROR_BAD_PARAMETERS)
    ELSE IF tzma_is_locked(hw, m.tzma_id)
    THEN EtzpcRefuse(hw,
            IF etzpc_do_get_tzma(hw, m.tzma_id) # size \div SMALL_PAGE_SIZE
            THEN TEE_ERROR_ACCESS_DENIED ELSE TEE_SUCCESS)
    ELSE [hw |-> etzpc_do_configure_tzma(hw, m.tzma_id,
                                         size \div SMALL_PAGE_SIZE),
          res |-> TEE_SUCCESS, wr |-> {"tzma"}]

\* stm32_etzpc_configure_memory (builds without the pager): [hw, res, wr]
stm32_etzpc_configure_memory(hw, dd, arg_count, arg, paddr, size) ==
    IF arg_count # 1 THEN EtzpcRefuse(hw, TEE_ERROR_BAD_PARAMETERS)
    ELSE IF /\ EtzpcArgId(arg) < dd.num_per_sec
            /\ EtzpcArgId(arg) \in DOMAIN EtzpcRams
    THEN IF \/ paddr # EtzpcRams[EtzpcArgId(arg)].base
            \/ size # EtzpcRams[EtzpcArgId(arg)].size
         THEN EtzpcRefuse(hw, TEE_ERROR_BAD_PARAMETERS)
         ELSE EtzpcDecprotRequest(hw, dd, EtzpcArgId(arg), arg)
    ELSE IF EtzpcArgId(arg) \in DOMAIN EtzpcTzmas
    THEN EtzpcTzmaRequest(hw, EtzpcTzmas[EtzpcArgId(arg)], paddr, size)
    ELSE EtzpcRefuse(hw, TEE_ERROR_BAD_PARAMETERS)

\* etzpc_pm, PM_OP_SUSPEND: the shadow words periph_cfg[n] (uint8_t) and
\* tzma_cfg[n] (uint16_t, assigned from a uint8_t cast).
EtzpcPmSuspend(hw, dd) ==
    [periph_cfg |->
        [n \in 0..(dd.num_per_sec - 1) |->
            BitOr(etzpc_do_get_decprot(hw, n) % 256,
                  IF decprot_is_locked(hw, n) THEN PERIPH_PM_LOCK_BIT ELSE 0)],
     tzma_cfg |->
        [n \in 0..(dd.num_tzma - 1) |->
            BitOr(etzpc_do_get_tzma(hw, n) % 256,
                  IF tzma_is_locked(hw, n) THEN TZMA_PM_LOCK_BIT ELSE 0)]]

\* etzpc_pm, PM_OP_RESUME, peripheral n and TZMA n.
EtzpcResumePeriph(hw, cfg, n) ==
    IF BitAnd(cfg, PERIPH_PM_LOCK_BIT) # 0
    THEN etzpc_do_lock_decprot(
             etzpc_do_configure_decprot(hw, n,
                                        BitAnd(cfg, PERIPH_PM_ATTR_MASK)), n)
    ELSE etzpc_do_configure_decprot(hw, n, BitAnd(cfg, PERIPH_PM_ATTR_MASK))

EtzpcResumeTzma(hw, cfg, n) ==
    IF BitAnd(cfg, TZMA_PM_LOCK_BIT) # 0
    THEN etzpc_do_lock_tzma(
             etzpc_do_configure_tzma(hw, n, BitAnd(cfg, TZMA_PM_VALUE_MASK)),
             n)
    ELSE etzpc_do_configure_tzma(hw, n, BitAnd(cfg, TZMA_PM_VALUE_MASK))

\* Every entry is restored from its own shadow word and touches its own
\* field only.
EtzpcPmResume(hw, pd, dd) ==
    [decprot |-> [n \in 0..(dd.num_per_sec - 1) |->
                     EtzpcResumePeriph(hw, pd.periph_cfg[n], n).decprot[n]],
     lock |-> [n \in 0..(dd.num_per_sec - 1) |->
                  EtzpcResumePeriph(hw, pd.periph_cfg[n], n).lock[n]],
     tzma |-> [n \in 0..(dd.num_tzma - 1) |->
                  EtzpcResumeTzma(hw, pd.tzma_cfg[n], n).tzma[n]],
     tzma_lock |-> [n \in 0..(dd.num_tzma - 1) |->
                       EtzpcResumeTzma(hw, pd.tzma_cfg[n], n).tzma_lock[n]]]

-----------------------------------------------------------------------------
\* The ETZPC driver after its probe: configuration and access calls of the
\* firewall framework, and one suspend/resume cycle.  The registers start
\* in any state the earlier boot stages and the probe can leave.

\* Peripherals under DECPROT control (ddata->num_per_sec) and TZMA.
NumPerSec == 2

NumTzma == 2

\* TZMA0 sizes, in pages, that the boot stages may have programmed.
EtzpcBootSizes == {0, 16, 256}

EtzpcAttrs(mp15) ==
    IF mp15 THEN 0..3
    ELSE {ETZPC_DECPROT_S_RW, ETZPC_DECPROT_NS_R_S_W, ETZPC_DECPROT_NS_RW}

EtzpcBootHw(mp15) ==
    {[decprot |-> d, lock |-> l,
      tzma |-> (0 :> sz) @@ [n \in 1..(NumTzma - 1) |-> 64],
      tzma_lock |-> (0 :> tl) @@ [n \in 1..(NumTzma - 1) |-> FALSE]] :
        d \in [0..(NumPerSec - 1) -> EtzpcAttrs(mp15)],
        l \in [0..(NumPerSec - 1) -> BOOLEAN],
        sz \in EtzpcBootSizes, tl \in BOOLEAN}

\* Registers after a loss of power: everything secure and unlocked.
EtzpcResetHw ==
    [decprot |-> [n \in 0..(NumPerSec - 1) |-> ETZPC_DECPROT_S_RW],
     lock |-> [n \in 0..(NumPerSec - 1) |-> FALSE],
     tzma |-> [n \in 0..(NumTzma - 1) |-> 0],
     tzma_lock |-> [n \in 0..(NumTzma - 1) |-> FALSE]]

\* The firewall arguments a caller passes: DECPROT(id, mode, lock) words.
EtzpcIds == {0, 1, NumPerSec, 8}

EtzpcArgs ==
    {DECPROT(id, mode, lock) : id \in EtzpcIds, mode \in 0..3, lock \in 0..1}

EtzpcArgCounts == {<<1, a>> : a \in EtzpcArgs}
                  \cup {<<2, DECPROT(0, ETZPC_DECPROT_NS_RW, 0)>>}

\* Access queries leave the lock bit of the argument clear.
EtzpcQueries == {q \in EtzpcArgCounts : ~EtzpcArgLock(q[2])}

EtzpcPaddrs == {0, 2097152, SMALL_PAGE_SIZE}

EtzpcSizes == {100} \cup {k * SMALL_PAGE_SIZE : k \in {4, 16, 33}}

EtzpcNoCall(hw) ==
    [op |-> "none", arg_count |-> 0, arg |-> 0, paddr |-> 0, size |-> 0,
     res |-> "none", wr |-> {}, hw0 |-> hw, cfg |-> "none", n |-> 0]

EtzpcInit ==
    /\ \E mp15 \in BOOLEAN :
        /\ etzpc_drv = [dd |-> [num_per_sec |-> NumPerSec,
                                num_tzma |-> NumTzma, mp15 |-> mp15],
                        pd |-> [periph_cfg |-> [n \in 0..(NumPerSec - 1) |-> 0],
                                tzma_cfg |-> [n \in 0..(NumTzma - 1) |-> 0]],
                        pm |-> "run"]
        /\ etzpc_hw \in EtzpcBootHw(mp15)
    /\ etzpc_call = EtzpcNoCall(etzpc_hw)
    /\ SemIdle /\ ChkIdle /\ RifscIdle /\ RisafIdle /\ BndIdle
    /\ fw = "etzpc" /\ PwrIdle /\ PrsIdle /\ HpdmaIdle /\ RprocIdle

\* A configuration call returns r = [hw, res, wr].
EtzpcConfigured(op, q, paddr, size, r) ==
    /\ etzpc_hw' = r.hw
    /\ etzpc_call' = [op |-> op, arg_count |-> q[1], arg |-> q[2],
                      paddr |-> paddr, size |-> size, res |-> r.res,
                      wr |-> r.wr, hw0 |-> etzpc_hw, cfg |-> op,
                      n |-> etzpc_call.n + 1]
    /\ UNCHANGED <<etzpc_drv, notEtzpc>>

\* firewall set_config
EtzpcConfigure ==
    /\ etzpc_drv.pm = "run"
    /\ etzpc_call.n < MaxCalls
    /\ \E q \in EtzpcArgCounts :
        EtzpcConfigured("configure", q, 0, 0,
                        stm32_etzpc_configure(etzpc_hw, etzpc_drv.dd,
                                              q[1], q[2]))

\* firewall set_memory_config
EtzpcConfigureMemory ==
    /\ etzpc_drv.pm = "run"
    /\ etzpc_call.n < MaxCalls
    /\ \E q \in EtzpcArgCounts, paddr \in EtzpcPaddrs, size \in EtzpcSizes :
        EtzpcConfigured("configure_memory", q, paddr, size,
                        stm32_etzpc_configure_memory(etzpc_hw, etzpc_drv.dd,
                                                     q[1], q[2], paddr, size))

\* An access query returns res; the registers are only read.
EtzpcQueried(op, q, res) ==
    /\ etzpc_call' = [etzpc_call EXCEPT !.op = op, !.arg_count = q[1],
                                        !.arg = q[2], !.res = res,
                                        !.n = MaxCalls + 1]
    /\ UNCHANGED <<etzpc_hw, etzpc_drv, notEtzpc>>

\* firewall check_access, first or after a set_config
EtzpcCheckAccess ==
    /\ etzpc_drv.pm = "run"
    /\ etzpc_call.n <= MaxCalls
    /\ etzpc_call.cfg \in {"none", "configure"}
    /\ \E q \in EtzpcQueries :
        EtzpcQueried("check_access", q,
                     stm32_etzpc_check_access(etzpc_hw, etzpc_drv.dd,
                                              q[1], q[2]))

\* firewall acquire_access
EtzpcAcquireAccess ==
    /\ etzpc_drv.pm = "run"
    /\ etzpc_call.n = 0
    /\ \E q \in EtzpcQueries :
        EtzpcQueried("acquire_access", q,
                     stm32_etzpc_acquire_access(etzpc_hw, etzpc_drv.dd,
                                                q[1], q[2]))

\* etzpc_pm(PM_OP_SUSPEND)
EtzpcSuspend ==
    /\ etzpc_drv.pm = "run"
    /\ etzpc_call.n = 0
    /\ etzpc_drv' = [etzpc_drv EXCEPT
                        !.pd = EtzpcPmSuspend(etzpc_hw, etzpc_drv.dd),
                        !.pm = "suspended"]
    /\ etzpc_call' = [etzpc_call EXCEPT !.op = "suspend",
                                        !.res = TEE_SUCCESS,
                                        !.hw0 = etzpc_hw]
    /\ UNCHANGED <<etzpc_hw, notEtzpc>>

\* The platform removes power while suspended: the registers reset.
EtzpcPowerLoss ==
    /\ etzpc_drv.pm = "suspended"
    /\ etzpc_hw' = EtzpcResetHw
    /\ etzpc_drv' = [etzpc_drv EXCEPT !.pm = "off"]
    /\ UNCHANGED <<etzpc_call, notEtzpc>>

\* etzpc_pm(PM_OP_RESUME), with or without a loss of power in between
EtzpcResume ==
    /\ etzpc_drv.pm \in {"suspended", "off"}
    /\ etzpc_hw' = EtzpcPmResume(etzpc_hw, etzpc_drv.pd, etzpc_drv.dd)
    /\ etzpc_drv' = [etzpc_drv EXCEPT !.pm = "resumed"]
    /\ etzpc_call' = [etzpc_call EXCEPT !.op = "resume",
                                        !.res = TEE_SUCCESS,
                                        !.cfg = etzpc_drv.pm,
                                        !.n = MaxCalls + 1]
    /\ UNCHANGED notEtzpc

EtzpcNext ==
    \/ EtzpcConfigure
    \/ EtzpcConfigureMemory
    \/ EtzpcCheckAccess
    \/ EtzpcAcquireAccess
    \/ EtzpcSuspend
    \/ EtzpcPowerLoss
    \/ EtzpcResume

SpecEtzpc == EtzpcInit /\ [][EtzpcNext]_vars

\* The last call was a configuration call with one argument.
EtzpcWasConfig ==
    /\ etzpc_call.op \in {"configure", "configure_memory"}
    /\ etzpc_call.arg_count = 1

\* ... and it named a peripheral the call handles as a DECPROT peripheral
\* (set_memory_config: an internal RAM) whose lock bit was set.
EtzpcOnLockedPeriph ==
    /\ EtzpcWasConfig
    /\ EtzpcArgId(etzpc_call.arg) < NumPerSec
    /\ etzpc_call.op = "configure_memory"
       => EtzpcArgId(etzpc_call.arg) \in DOMAIN EtzpcRams
    /\ etzpc_call.hw0.lock[EtzpcArgId(etzpc_call.arg)]

\* The attribute the peripheral had before the call differs from the one
\* requested.
EtzpcAttrDiffers ==
    etzpc_call.hw0.decprot[EtzpcArgId(etzpc_call.arg)]
    # EtzpcArgMode(etzpc_call.arg)

\* set_memory_config was given the address and size of the internal RAM.
EtzpcRamRangeOk ==
    etzpc_call.op = "configure_memory"
    => /\ etzpc_call.paddr = EtzpcRams[EtzpcArgId(etzpc_call.arg)].base
       /\ etzpc_call.size = EtzpcRams[EtzpcArgId(etzpc_call.arg)].size

\* The build knows the requested mode.
EtzpcModeKnown ==
    etzpc_binding2decprot(EtzpcArgMode(etzpc_call.arg), etzpc_drv.dd.mp15)
    # ETZPC_DECPROT_MAX

\* No locked peripheral changed its attribute or lost its lock in the call.
EtzpcLockedKept ==
    \A n \in 0..(NumPerSec - 1) :
        etzpc_call.hw0.lock[n]
        => /\ etzpc_hw.decprot[n] = etzpc_call.hw0.decprot[n]
           /\ etzpc_hw.lock[n]

EtzpcLockedAnswer ==
    IF EtzpcAttrDiffers
    THEN /\ etzpc_call.res = TEE_ERROR_ACCESS_DENIED
         /\ etzpc_hw = etzpc_call.hw0
    ELSE /\ etzpc_call.res = TEE_SUCCESS
         /\ etzpc_call.wr = {}
         /\ etzpc_hw = etzpc_call.hw0

\* C13 as the claim states it: on a peripheral whose DECPROT lock bit is
\* set, set_config (and set_memory_config on an internal RAM id) returns
\* AccessDenied and changes nothing when the requested attribute differs,
\* and success without a write when it is the same.
C13_LockedDecprot_AsStated == EtzpcOnLockedPeriph => EtzpcLockedAnswer

\* C13: on a peripheral whose DECPROT lock bit is set, a set_config or
\* set_memory_config (internal RAM id) call that passes the checks made
\* before the lock is read -- the RAM's own address and size, a mode the
\* build knows -- returns AccessDenied and changes nothing when the
\* requested attribute differs, and success without a write when it is the
\* same; a call that fails those checks returns BadParameters or panics;
\* no configuration call changes the attribute or the lock of a locked
\* peripheral.
C13_LockedDecprot ==
    /\ EtzpcWasConfig => EtzpcLockedKept
    /\ EtzpcOnLockedPeriph
       => IF ~EtzpcRamRangeOk
          THEN etzpc_call.res = TEE_ERROR_BAD_PARAMETERS /\ etzpc_call.wr = {}
          ELSE IF ~EtzpcModeKnown
          THEN etzpc_call.res = "panic" /\ etzpc_call.wr = {}
          ELSE EtzpcLockedAnswer

C13_Witness ==
    /\ EtzpcOnLockedPeriph
    /\ EtzpcAttrDiffers
    /\ etzpc_call.op = "configure_memory"
    /\ etzpc_call.res = TEE_ERROR_ACCESS_DENIED
    /\ etzpc_hw = etzpc_call.hw0

\* The last call was a set_memory_config on a TZMA whose lock bit was set.
EtzpcOnLockedTzma ==
    /\ etzpc_call.op = "configure_memory"
    /\ etzpc_call.arg_count = 1
    /\ EtzpcArgId(etzpc_call.arg) \in DOMAIN EtzpcTzmas
    /\ ~(/\ EtzpcArgId(etzpc_call.arg) < NumPerSec
         /\ EtzpcArgId(etzpc_call.arg) \in DOMAIN EtzpcRams)
    /\ etzpc_call.hw0.tzma_lock[EtzpcTzmas[EtzpcArgId(etzpc_call.arg)].tzma_id]

\* The pages the request asks for, ROUNDUP_DIV(size, SMALL_PAGE_SIZE),
\* differ from the size field before the call.
EtzpcPagesDiffer ==
    etzpc_call.hw0.tzma[EtzpcTzmas[EtzpcArgId(etzpc_call.arg)].tzma_id]
    # (etzpc_call.size + SMALL_PAGE_SIZE - 1) \div SMALL_PAGE_SIZE

\* The request starts at the base of the memory, does not exceed it and is
\* a whole number of pages.
EtzpcTzmaRangeOk ==
    /\ etzpc_call.paddr = EtzpcTzmas[EtzpcArgId(etzpc_call.arg)].base
    /\ etzpc_call.size <= EtzpcTzmas[EtzpcArgId(etzpc_call.arg)].size
    /\ etzpc_call.size % SMALL_PAGE_SIZE = 0

EtzpcTzmaLockedKept ==
    \A n \in 0..(NumTzma - 1) :
        etzpc_call.hw0.tzma_lock[n]
        => /\ etzpc_hw.tzma[n] = etzpc_call.hw0.tzma[n]
           /\ etzpc_hw.tzma_lock[n]

EtzpcTzmaLockedAnswer ==
    IF EtzpcPagesDiffer
    THEN /\ etzpc_call.res = TEE_ERROR_ACCESS_DENIED
         /\ etzpc_hw = etzpc_call.hw0
    ELSE /\ etzpc_call.res = TEE_SUCCESS
         /\ etzpc_call.wr = {}
         /\ etzpc_hw = etzpc_call.hw0

\* C14 as the claim states it: on a locked TZMA a memory-configuration
\* request returns AccessDenied and changes nothing when its page count
\* differs from the current size, and success as a no-op when it is the
\* same.
C14_LockedTzma_AsStated == EtzpcOnLockedTzma => EtzpcTzmaLockedAnswer

\* C14: on a locked TZMA a memory-configuration request that starts at the
\* base of the protected memory, does not exceed its size and is a whole
\* number of pages returns AccessDenied and changes nothing when its page
\* count differs from the current size, and success as a no-op when it is
\* the same; any other request returns BadParameters without a write; no
\* configuration call changes the size or the lock of a locked TZMA.
C14_LockedTzma ==
    /\ EtzpcWasConfig => EtzpcTzmaLockedKept
    /\ EtzpcOnLockedTzma
       => IF ~EtzpcTzmaRangeOk
          THEN /\ etzpc_call.res = TEE_ERROR_BAD_PARAMETERS
               /\ etzpc_call.wr = {}
               /\ etzpc_hw = etzpc_call.hw0
          ELSE EtzpcTzmaLockedAnswer

C14_Witness ==
    /\ EtzpcOnLockedTzma
    /\ etzpc_call.hw0.tzma[0] = 16
    /\ etzpc_call.size = 16 * SMALL_PAGE_SIZE
    /\ etzpc_call.res = TEE_SUCCESS
    /\ etzpc_call.wr = {}
    /\ etzpc_hw = etzpc_call.hw0

\* The last call was a check_access with one argument naming a valid
\* peripheral.
EtzpcChecked ==
    /\ etzpc_call.op = "check_access"
    /\ etzpc_call.arg_count = 1
    /\ EtzpcArgId(etzpc_call.arg) < NumPerSec

\* The attribute of the peripheral the last call named.
EtzpcCurAttr == etzpc_hw.decprot[EtzpcArgId(etzpc_call.arg)]

\* Requests made on behalf of the secure world, NS_R_S_W (secure write)
\* among them, and of the non-secure world.
EtzpcSecureRequests == {ETZPC_DECPROT_S_RW, ETZPC_DECPROT_NS_R_S_W}

EtzpcNonSecureRequests == {ETZPC_DECPROT_NS_RW}

\* The rule of the claim: equal attributes, or a peripheral that is not
\* MCU-isolated and a compatible request.
EtzpcRuleGrants ==
    \/ EtzpcCurAttr = EtzpcArgMode(etzpc_call.arg)
    \/ /\ EtzpcCurAttr # ETZPC_DECPROT_MCU_ISOLATION
       /\ \/ EtzpcArgMode(etzpc_call.arg) \in EtzpcSecureRequests
          \/ /\ EtzpcArgMode(etzpc_call.arg) \in EtzpcNonSecureRequests
             /\ EtzpcCurAttr # ETZPC_DECPROT_S_RW

\* C15: for a valid peripheral id check_access returns success exactly
\* when the current attribute equals the requested one or the peripheral
\* is not MCU-isolated and the request is compatible (secure request:
\* always; non-secure request: when the attribute is not Secure-RW); a
\* Secure-RW or NonSecure-RW request on an MCU-isolated peripheral returns
\* AccessDenied, and once set_config has made the peripheral Secure-RW a
\* Secure-RW request succeeds.
C15_CheckAccessRule ==
    EtzpcChecked
    => /\ etzpc_call.res = TEE_SUCCESS <=> EtzpcRuleGrants
       /\ /\ EtzpcCurAttr = ETZPC_DECPROT_MCU_ISOLATION
          /\ EtzpcArgMode(etzpc_call.arg)
             \in {ETZPC_DECPROT_S_RW, ETZPC_DECPROT_NS_RW}
          => etzpc_call.res = TEE_ERROR_ACCESS_DENIED
       /\ /\ etzpc_call.cfg = "configure"
          /\ EtzpcCurAttr = ETZPC_DECPROT_S_RW
          /\ EtzpcArgMode(etzpc_call.arg) = ETZPC_DECPROT_S_RW
          => etzpc_call.res = TEE_SUCCESS

\* Scenario C: the peripheral was MCU-isolated, set_config made it
\* Secure-RW, and the Secure-RW check succeeds.
C15_Witness ==
    /\ EtzpcChecked
    /\ etzpc_call.cfg = "configure"
    /\ etzpc_call.hw0.decprot[EtzpcArgId(etzpc_call.arg)]
       = ETZPC_DECPROT_MCU_ISOLATION
    /\ EtzpcCurAttr = ETZPC_DECPROT_S_RW
    /\ EtzpcArgMode(etzpc_call.arg) = ETZPC_DECPROT_S_RW
    /\ etzpc_call.res = TEE_SUCCESS

\* C19: after a suspend followed by a resume every DECPROT attribute and
\* lock bit and every TZMA size (0..1023) and lock bit equal the values
\* they had at suspend (hw0 is the register state at suspend).
C19_PmRoundTrip ==
    etzpc_call.op = "resume"
    => /\ etzpc_hw.decprot = etzpc_call.hw0.decprot
       /\ etzpc_hw.lock = etzpc_call.hw0.lock
       /\ etzpc_hw.tzma = etzpc_call.hw0.tzma
       /\ etzpc_hw.tzma_lock = etzpc_call.hw0.tzma_lock

\* C20 (ETZPC part): a check_access or acquire_access call returns a
\* TEE_Result and never panics, whatever its argument.
C20_AccessNeverPanics ==
    etzpc_call.op \in {"check_access", "acquire_access"}
    => etzpc_call.res \in {TEE_SUCCESS, TEE_ERROR_ACCESS_DENIED,
                           TEE_ERROR_BAD_PARAMETERS}

-----------------------------------------------------------------------------
\* The RISAF driver after a probe that returned with the controller
\* registered (OP-TEE is the TDCID): acquire_access, set_memory_conf with
\* the register writes of risaf_configure_region one at a time, and one
\* suspend/resume cycle.

TEE_ERROR_ITEM_NOT_FOUND == "TEE_ERROR_ITEM_NOT_FOUND"

\* _RISAF_REG_READ_OK / _RISAF_REG_WRITE_OK
_RISAF_REG_READ_OK(reg, cid) == BitAnd(reg, BIT(cid)) # 0

_RISAF_REG_WRITE_OK(reg, cid) == BitAnd(reg, BIT(cid) * BIT(16)) # 0

\* stm32_risaf_acquire_access past the argument checks, on the registers
\* cfgr and cidcfgr of the region.
RisafAccessDenied(cfgr, cidcfgr, tdcid, read, write) ==
    \/ BitAnd(cfgr, _RISAF_REG_CFGR_BREN) = 0 /\ ~tdcid
    \/ BitAnd(cfgr, _RISAF_REG_CFGR_SEC) = 0
    \/ /\ cidcfgr # 0
       /\ \/ read /\ ~_RISAF_REG_READ_OK(cidcfgr, RIF_CID1)
          \/ write /\ ~_RISAF_REG_WRITE_OK(cidcfgr, RIF_CID1)

stm32_risaf_acquire_access(hw, pd, tdcid, arg_count, arg, read, write) ==
    IF arg_count # 1 THEN TEE_ERROR_BAD_PARAMETERS
    ELSE IF \/ _RISAF_GET_REGION_ID(arg) = 0
            \/ _RISAF_GET_REGION_ID(arg) >= pd.nregions
    THEN TEE_ERROR_BAD_PARAMETERS
    ELSE IF RisafAccessDenied(hw[_RISAF_GET_REGION_ID(arg)].cfgr,
                              hw[_RISAF_GET_REGION_ID(arg)].cidcfgr,
                              tdcid, read, write)
    THEN TEE_ERROR_ACCESS_DENIED
    ELSE TEE_SUCCESS

\* stm32_risaf_reconfigure_region: the first entry of the table with the
\* region id, 0 when there is none.
RisafFindRegion(regions, id) ==
    IF \E i \in DOMAIN regions : _RISAF_GET_REGION_ID(regions[i].cfg) = id
    THEN CHOOSE i \in DOMAIN regions :
            /\ _RISAF_GET_REGION_ID(regions[i].cfg) = id
            /\ \A j \in 1..(i - 1) : _RISAF_GET_REGION_ID(regions[j].cfg) # id
    ELSE 0

\* stm32_risaf_reconfigure_region up to the call of risaf_configure_region:
\* the error it returns, or "configure".
RisafReconfigureChecks(pd, regions, arg_count, arg, paddr, size) ==
    IF arg_count # 1 THEN TEE_ERROR_BAD_PARAMETERS
    ELSE IF \/ _RISAF_GET_REGION_ID(arg) = 0
            \/ _RISAF_GET_REGION_ID(arg) >= pd.nregions
    THEN TEE_ERROR_BAD_PARAMETERS
    ELSE IF RisafFindRegion(regions, _RISAF_GET_REGION_ID(arg)) = 0
    THEN TEE_ERROR_ITEM_NOT_FOUND
    ELSE IF \/ regions[RisafFindRegion(regions,
                                       _RISAF_GET_REGION_ID(arg))].addr # paddr
            \/ regions[RisafFindRegion(regions,
                                       _RISAF_GET_REGION_ID(arg))].len # size
    THEN TEE_ERROR_GENERIC
    ELSE "configure"

\* risaf_configure_region, one register write: the region's registers r
\* after the write at position at (clr_bren, startr, endr, cidcfgr, cfgr), for the arguments a.
RisafCfgWrite_KeepEnabled(r, pd, at, a) ==
    IF at = "clr_bren" THEN r
    ELSE IF at = "startr"
    THEN [r EXCEPT !.startr =
            ClrSetBits(@, pd.mask_regions,
                       BitAnd(UPtr(a.saddr + 2 ^ AddrBits - pd.mem_base),
                              pd.mask_regions))]
    ELSE IF at = "endr"
    THEN [r EXCEPT !.endr =
            ClrSetBits(@, pd.mask_regions,
                       BitAnd(UPtr(a.eaddr + 2 ^ AddrBits - pd.mem_base),
                              pd.mask_regions))]
    ELSE IF at = "cidcfgr"
    THEN [r EXCEPT !.cidcfgr =
            ClrSetBits(@, _RISAF_REG_CIDCFGR_ALL_MASK,
                       BitAnd(a.cid_cfg, _RISAF_REG_CIDCFGR_ALL_MASK))]
    ELSE [r EXCEPT !.cfgr =
            ClrSetBits(@, _RISAF_REG_CFGR_ALL_MASK,
                       BitAnd(a.cfg, _RISAF_REG_CFGR_ALL_MASK))]

RisafCfgWrite(r, pd, at, a) ==
    IF at = "clr_bren"
    THEN [r EXCEPT !.cfgr = BitClr(@, _RISAF_REG_CFGR_BREN)]
    ELSE IF at = "startr"
    THEN [r EXCEPT !.startr =
            ClrSetBits(@, pd.mask_regions,
                       BitAnd(UPtr(a.saddr + 2 ^ AddrBits - pd.mem_base),
                              pd.mask_regions))]
    ELSE IF at = "endr"
    THEN [r EXCEPT !.endr =
            ClrSetBits(@, pd.mask_regions,
                       BitAnd(UPtr(a.eaddr + 2 ^ AddrBits - pd.mem_base),
                              pd.mask_regions))]
    ELSE IF at = "cidcfgr"
    THEN [r EXCEPT !.cidcfgr =
            ClrSetBits(@, _RISAF_REG_CIDCFGR_ALL_MASK,
                       BitAnd(a.cid_cfg, _RISAF_REG_CIDCFGR_ALL_MASK))]
    ELSE [r EXCEPT !.cfgr =
            ClrSetBits(@, _RISAF_REG_CFGR_ALL_MASK,
                       BitAnd(a.cfg, _RISAF_REG_CFGR_ALL_MASK))]

\* The write that follows the one at position at; "idle" after the last.
RisafCfgAfter(at) ==
    IF at = "clr_bren" THEN "startr"
    ELSE IF at = "startr" THEN "endr"
    ELSE IF at = "endr" THEN "cidcfgr"
    ELSE IF at = "cidcfgr" THEN "cfgr"
    ELSE "idle"

\* stm32_risaf_pm_suspend, one entry: the shadow entry read back from the
\* registers r of its region.
RisafSuspendRegion_NoPriv(e, r, pd) ==
    IF _RISAF_GET_REGION_ID(e.cfg) = 0 THEN e
    ELSE [cfg |-> _RISAF_GET_REGION_ID(e.cfg)
                  + BitAnd(r.cfgr, _RISAF_REG_CFGR_BREN) * BIT(4)
                  + DtField(r.cfgr, 8, 1) * BIT(5)
                  + DtField(r.cfgr, 15, 1) * BIT(7)
                  + BitAnd(r.cidcfgr, GENMASK_32(7, 0)) * BIT(16)
                  + DtField(r.cidcfgr, 16, 8) * BIT(24),
          addr |-> UPtr(r.startr + pd.mem_base),
          len |-> UPtr(r.endr + 2 ^ AddrBits - r.startr + 1)]

RisafSuspendRegion(e, r, pd) ==
    IF _RISAF_GET_REGION_ID(e.cfg) = 0 THEN e
    ELSE [cfg |-> _RISAF_GET_REGION_ID(e.cfg)
                  + BitAnd(r.cfgr, _RISAF_REG_CFGR_BREN) * BIT(4)
                  + DtField(r.cfgr, 8, 1) * BIT(5)
                  + DtField(r.cfgr, 15, 1) * BIT(7)
                  + DtField(r.cfgr, 16, 8) * BIT(8)
                  + BitAnd(r.cidcfgr, GENMASK_32(7, 0)) * BIT(16)
                  + DtField(r.cidcfgr, 16, 8) * BIT(24),
          addr |-> UPtr(r.startr + pd.mem_base),
          len |-> UPtr(r.endr + 2 ^ AddrBits - r.startr + 1)]

\* stm32_risaf_pm_suspend: the shadow table.  Entries of region id 0 have
\* no registers and stay as they are.
stm32_risaf_pm_suspend(regions, hw, pd) ==
    [i \in DOMAIN regions |->
        IF _RISAF_GET_REGION_ID(regions[i].cfg) = 0 THEN regions[i]
        ELSE RisafSuspendRegion(regions[i],
                                hw[_RISAF_GET_REGION_ID(regions[i].cfg)], pd)]

\* stm32_risaf_pm_resume from entry i on: [hw, res, written], res "panic"
\* when risaf_configure_region fails, written the region ids written to.
RECURSIVE stm32_risaf_pm_resume(_, _, _, _, _)
stm32_risaf_pm_resume(hw, pd, regions, i, written) ==
    IF i > Len(regions)
    THEN [hw |-> hw, res |-> TEE_SUCCESS, written |-> written]
    ELSE IF _RISAF_GET_REGION_ID(regions[i].cfg) = 0
    THEN stm32_risaf_pm_resume(hw, pd, regions, i + 1, written)
    ELSE IF RisafConfigureResult(pd, _RISAF_GET_REGION_CFG(regions[i].cfg))
            # TEE_SUCCESS
    THEN [hw |-> risaf_configure_region(
                    hw, pd, _RISAF_GET_REGION_ID(regions[i].cfg),
                    _RISAF_GET_REGION_CFG(regions[i].cfg),
                    _RISAF_GET_REGION_CID_CFG(regions[i].cfg),
                    regions[i].addr,
                    UPtr(regions[i].addr + regions[i].len
                         + 2 ^ AddrBits - 1)).hw,
          res |-> "panic",
          written |-> written \cup {_RISAF_GET_REGION_ID(regions[i].cfg)}]
    ELSE stm32_risaf_pm_resume(
             risaf_configure_region(
                 hw, pd, _RISAF_GET_REGION_ID(regions[i].cfg),
                 _RISAF_GET_REGION_CFG(regions[i].cfg),
                 _RISAF_GET_REGION_CID_CFG(regions[i].cfg),
                 regions[i].addr,
                 UPtr(regions[i].addr + regions[i].len + 2 ^ AddrBits - 1)).hw,
             pd, regions, i + 1,
             written \cup {_RISAF_GET_REGION_ID(regions[i].cfg)})

\* st,protreg cells of the region id: enabled secure regions open to CID 1
\* (plain, encrypted and privileged, read-only), a non-secure one, a disabled
\* one, one with no CID at all, an encrypted non-secure one; 0 for an entry
\* the probe skipped.
RisafRtCell(id, kind) ==
    IF kind = "secure" THEN DT_RISAF_PROT(id, 1, 1, 0, 0, 2, 2)
    ELSE IF kind = "enc" THEN DT_RISAF_PROT(id, 1, 1, 2, 2, 2, 2)
    ELSE IF kind = "ronly" THEN DT_RISAF_PROT(id, 1, 1, 0, 0, 2, 0)
    ELSE IF kind = "nonsec" THEN DT_RISAF_PROT(id, 1, 0, 0, 0, 6, 6)
    ELSE IF kind = "disabled" THEN DT_RISAF_PROT(id, 0, 1, 0, 0, 2, 2)
    ELSE IF kind = "nocid" THEN DT_RISAF_PROT(id, 1, 1, 0, 0, 0, 0)
    ELSE IF kind = "enc_ns" THEN DT_RISAF_PROT(id, 1, 0, 2, 0, 2, 2)
    ELSE 0

\* Cells the probe accepts on an instance with or without encryption.
RisafRtKinds(enc) ==
    {"skip", "secure", "ronly", "nonsec", "disabled", "nocid"}
    \cup (IF enc THEN {"enc"} ELSE {})

\* The regions lie side by side in the memory, clear of the op_tee region.
RisafRtAddr(k) == IF k < 3 THEN RisafPdata.mem_base + 2 * (k - 1) ELSE 4 + 2 * k

RisafRtTables(enc) ==
    {[k \in 1..NRegions |->
        [cfg |-> RisafRtCell(k, f[k]), addr |-> RisafRtAddr(k), len |-> 2]] :
        f \in [1..NRegions -> RisafRtKinds(enc)]}

RisafRtPdata(enc) ==
    [nregions |-> NRegions]
    @@ [RisafPdata EXCEPT !.enc_supported = enc]

\* set_memory_conf queries: [arg_count, arg, paddr, size]
RisafRtRequests ==
    {[arg_count |-> 1, arg |-> RisafRtCell(id, kind), paddr |-> paddr,
      size |-> 2] :
        id \in 0..NRegions,
        kind \in {"secure", "enc", "enc_ns", "nonsec", "nocid"},
        paddr \in {RisafRtAddr(1), RisafRtAddr(2)}}
    \cup {[arg_count |-> 2, arg |-> RisafRtCell(1, "secure"),
           paddr |-> RisafRtAddr(1), size |-> 2]}

\* acquire_memory_access queries: [arg_count, arg, read, write]
RisafRtQueries ==
    {[arg_count |-> 1, arg |-> RisafRtCell(id, "secure"), read |-> r,
      write |-> w] : id \in 0..NRegions, r \in BOOLEAN, w \in BOOLEAN}
    \cup {[arg_count |-> 0, arg |-> 0, read |-> TRUE, write |-> TRUE]}

RisafNoArgs == [id |-> 0, cfg |-> 0, cid_cfg |-> 0, saddr |-> 0, eaddr |-> 0]

RisafRtInit ==
    /\ SemIdle /\ ChkIdle /\ RifscIdle /\ BndIdle /\ EtzpcIdle
    /\ fw = "risaf_rt" /\ PwrIdle /\ PrsIdle /\ HpdmaIdle /\ RprocIdle
    /\ \E enc \in BOOLEAN :
        /\ risaf_dt = [is_tdcid |-> TRUE, pd |-> RisafRtPdata(enc)]
        /\ \E t \in RisafRtTables(enc) :
            /\ risaf_hw = stm32_risaf_pm_resume(RisafHwReset,
                                                RisafRtPdata(enc), t, 1,
                                                {}).hw
            /\ risaf_drv = [regions |-> t, at |-> "idle", a |-> RisafNoArgs,
                            pm |-> "run", op |-> "none", res |-> "none",
                            q |-> 0, hw0 |-> risaf_hw, regions0 |-> t,
                            written |-> {}, n |-> 0]

\* firewall acquire_memory_access
RisafRtAcquireAccess ==
    /\ risaf_drv.pm = "run" /\ risaf_drv.at = "idle" /\ risaf_drv.n = 0
    /\ \E q \in RisafRtQueries :
        risaf_drv' = [risaf_drv EXCEPT
            !.op = "acquire_access", !.q = q, !.n = MaxCalls + 1,
            !.res = stm32_risaf_acquire_access(
                        risaf_hw, risaf_dt.pd, risaf_dt.is_tdcid,
                        q.arg_count, q.arg, q.read, q.write)]
    /\ UNCHANGED <<risaf_dt, risaf_hw, notRisaf>>

\* stm32_risaf_reconfigure_region found the entry e and calls
\* risaf_configure_region, or returns res.
RisafRtEntered(q, res, e) ==
    /\ risaf_drv' = [risaf_drv EXCEPT
            !.op = "reconfigure", !.q = q, !.n = @ + 1, !.hw0 = risaf_hw,
            !.res = IF res = "configure" THEN "none" ELSE res,
            !.at = IF res = "configure" THEN "clr_bren" ELSE "idle",
            !.a = IF res = "configure"
                  THEN [id |-> _RISAF_GET_REGION_ID(q.arg),
                        cfg |-> _RISAF_GET_REGION_CFG(q.arg),
                        cid_cfg |-> _RISAF_GET_REGION_CID_CFG(q.arg),
                        saddr |-> e.addr,
                        eaddr |-> UPtr(e.addr + e.len + 2 ^ AddrBits - 1)]
                  ELSE RisafNoArgs]
    /\ UNCHANGED <<risaf_dt, risaf_hw, notRisaf>>

\* firewall set_memory_conf, up to the call of risaf_configure_region
RisafRtReconfigureRegion ==
    /\ risaf_drv.pm = "run" /\ risaf_drv.at = "idle"
    /\ risaf_drv.n < MaxCalls
    /\ \E q \in RisafRtRequests :
        RisafRtEntered(
            q,
            RisafReconfigureChecks(risaf_dt.pd, risaf_drv.regions,
                                   q.arg_count, q.arg, q.paddr, q.size),
            risaf_drv.regions[
                IF RisafFindRegion(risaf_drv.regions,
                                   _RISAF_GET_REGION_ID(q.arg)) = 0
                THEN 1
                ELSE RisafFindRegion(risaf_drv.regions,
                                     _RISAF_GET_REGION_ID(q.arg))])

\* risaf_configure_region, the next register write; the last one is
\* followed by the checks and the return.
RisafRtCfgStep ==
    /\ risaf_drv.at # "idle"
    /\ risaf_hw' = [risaf_hw EXCEPT ![risaf_drv.a.id] =
                        RisafCfgWrite(@, risaf_dt.pd, risaf_drv.at,
                                      risaf_drv.a)]
    /\ risaf_drv' = [risaf_drv EXCEPT
            !.at = RisafCfgAfter(@),
            !.res = IF risaf_drv.at = "cfgr"
                    THEN RisafConfigureResult(risaf_dt.pd, risaf_drv.a.cfg)
                    ELSE @]
    /\ UNCHANGED <<risaf_dt, notRisaf>>

\* stm32_risaf_pm(PM_OP_SUSPEND) with the context to be lost
RisafRtSuspend ==
    /\ risaf_drv.pm = "run" /\ risaf_drv.at = "idle"
    /\ risaf_drv.op # "acquire_access"
    /\ risaf_drv' = [risaf_drv EXCEPT
            !.regions = stm32_risaf_pm_suspend(@, risaf_hw, risaf_dt.pd),
            !.regions0 = risaf_drv.regions,
            !.hw0 = risaf_hw, !.pm = "suspended", !.op = "suspend",
            !.res = TEE_SUCCESS]
    /\ UNCHANGED <<risaf_dt, risaf_hw, notRisaf>>

\* The low-power mode loses the region registers.
RisafRtPowerLoss ==
    /\ risaf_drv.pm = "suspended"
    /\ risaf_hw' = RisafHwReset
    /\ risaf_drv' = [risaf_drv EXCEPT !.pm = "off"]
    /\ UNCHANGED <<risaf_dt, notRisaf>>

\* resume returns r = [hw, res, written]
RisafRtResumed(r) ==
    /\ risaf_hw' = r.hw
    /\ risaf_drv' = [risaf_drv EXCEPT
            !.pm = IF @ = "off" THEN "cold" ELSE "warm",
            !.op = "resume", !.res = r.res, !.written = r.written]
    /\ UNCHANGED <<risaf_dt, notRisaf>>

\* stm32_risaf_pm(PM_OP_RESUME)
RisafRtResume ==
    /\ risaf_drv.pm \in {"suspended", "off"}
    /\ RisafRtResumed(stm32_risaf_pm_resume(risaf_hw, risaf_dt.pd,
                                            risaf_drv.regions, 1, {}))

RisafRtNext ==
    \/ RisafRtAcquireAccess
    \/ RisafRtReconfigureRegion
    \/ RisafRtCfgStep
    \/ RisafRtSuspend
    \/ RisafRtPowerLoss
    \/ RisafRtResume

SpecRisafRt == RisafRtInit /\ [][RisafRtNext]_vars

\* The last call was an acquire_access with one argument naming a region
\* the function accepts.
RisafAcquired ==
    /\ risaf_drv.op = "acquire_access"
    /\ risaf_drv.q.arg_count = 1
    /\ _RISAF_GET_REGION_ID(risaf_drv.q.arg) \in 1..(risaf_dt.pd.nregions - 1)

\* The registers of the region the last query named.
RisafQueried == risaf_hw[_RISAF_GET_REGION_ID(risaf_drv.q.arg)]

\* C16: acquire_access returns AccessDenied when the region is disabled and
\* OP-TEE is not the TDCID, when the region is not secure, and when read
\* (write) access is requested while CID 1 is not set in the read-enable
\* (write-enable) mask of the region, a mask register of zero included.
C16_AcquireDenies ==
    /\ RisafAcquired
    /\ \/ /\ BitAnd(RisafQueried.cfgr, _RISAF_REG_CFGR_BREN) = 0
          /\ ~risaf_dt.is_tdcid
       \/ BitAnd(RisafQueried.cfgr, _RISAF_REG_CFGR_SEC) = 0
       \/ /\ risaf_drv.q.read
          /\ ~TestBit(RisafQueried.cidcfgr, RIF_CID1)
       \/ /\ risaf_drv.q.write
          /\ ~TestBit(RisafQueried.cidcfgr, 16 + RIF_CID1)
    => risaf_drv.res = TEE_ERROR_ACCESS_DENIED

\* The enable bit of the registers r of a region.
RisafEnabled(r) == BitAnd(r.cfgr, _RISAF_REG_CFGR_BREN) # 0

\* The start, end and CID registers of r are those of s.
RisafSameRange(r, s) ==
    r.startr = s.startr /\ r.endr = s.endr /\ r.cidcfgr = s.cidcfgr

\* A step of an execution of risaf_configure_region keeps the region
\* disabled around every write of its start, end and CID registers,
\* changes those registers in these writes only, and enables the region
\* only in the last write, with the three registers at their new values.
RisafCfgStepOrdered ==
    risaf_drv.at # "idle"
    => /\ risaf_drv.at \in {"startr", "endr", "cidcfgr"}
          => /\ ~RisafEnabled(risaf_hw[risaf_drv.a.id])
             /\ ~RisafEnabled(risaf_hw'[risaf_drv.a.id])
       /\ ~RisafSameRange(risaf_hw'[risaf_drv.a.id],
                          risaf_hw[risaf_drv.a.id])
          => risaf_drv.at \in {"startr", "endr", "cidcfgr"}
       /\ RisafEnabled(risaf_hw'[risaf_drv.a.id])
          => /\ risaf_drv.at = "cfgr"
             /\ risaf_hw' = risaf_configure_region(
                                risaf_drv.hw0, risaf_dt.pd, risaf_drv.a.id,
                                risaf_drv.a.cfg, risaf_drv.a.cid_cfg,
                                risaf_drv.a.saddr, risaf_drv.a.eaddr).hw

\* C17: in every execution of risaf_configure_region the enable bit is
\* cleared before the start address, end address or CID masks are written,
\* it is set again only by the final configuration write, when those
\* registers hold their new values, and the region is never enabled while
\* its address or CID registers are being changed.
C17_DisabledWhileWritten == [][RisafCfgStepOrdered]_vars

\* An enabled region got other CID masks and is enabled again.
C17_Witness ==
    /\ risaf_drv.op = "reconfigure"
    /\ risaf_drv.at = "idle"
    /\ risaf_drv.res = TEE_SUCCESS
    /\ RisafEnabled(risaf_drv.hw0[risaf_drv.a.id])
    /\ risaf_drv.hw0[risaf_drv.a.id].cidcfgr
       # risaf_hw[risaf_drv.a.id].cidcfgr
    /\ RisafEnabled(risaf_hw[risaf_drv.a.id])

\* The region id of entry i of the table (suspend and resume keep it).
RisafIdOf(i) == _RISAF_GET_REGION_ID(risaf_drv.regions0[i].cfg)

\* Resume wrote the registers of the region of entry i, and they hold what
\* they held at suspend: start, end, CID masks and configuration bits.
RisafRestored(i) ==
    /\ RisafIdOf(i) \in risaf_drv.written
    /\ risaf_hw[RisafIdOf(i)] = risaf_drv.hw0[RisafIdOf(i)]

\* Entries of region id 0 are as before the suspend, and no register was
\* written for them.
RisafZeroUntouched ==
    /\ 0 \notin risaf_drv.written
    /\ \A i \in DOMAIN risaf_drv.regions0 :
          RisafIdOf(i) = 0 => risaf_drv.regions[i] = risaf_drv.regions0[i]

\* At suspend the region of entry i held an encryption setting that
\* risaf_configure_region refuses.
RisafRefused(i) ==
    /\ RisafIdOf(i) # 0
    /\ RisafConfigureResult(risaf_dt.pd, risaf_drv.hw0[RisafIdOf(i)].cfgr)
       # TEE_SUCCESS

FwInit == RifscInit \/ EtzpcInit \/ RisafRtInit

FwNext ==
    \/ fw = "rifsc" /\ RifscNext
    \/ fw = "etzpc" /\ EtzpcNext
    \/ fw = "risaf_rt" /\ RisafRtNext

SpecFw == FwInit /\ [][FwNext]_vars

\* A RIFSC call returns BAD_PARAMETERS in this step.
FwRifscRefuses ==
    /\ fw = "rifsc"
    /\ rifsc_call' # rifsc_call
    /\ rifsc_call'.res = TEE_ERROR_BAD_PARAMETERS

\* An ETZPC call returns BAD_PARAMETERS in this step.
FwEtzpcRefuses ==
    /\ fw = "etzpc"
    /\ etzpc_call' # etzpc_call
    /\ etzpc_call'.op \in {"configure", "configure_memory", "check_access",
                           "acquire_access"}
    /\ etzpc_call'.res = TEE_ERROR_BAD_PARAMETERS

\* A RISAF call returns BAD_PARAMETERS in this step (set_memory_conf
\* returns at its entry or after the last write of risaf_configure_region).
FwRisafRefuses ==
    /\ fw = "risaf_rt"
    /\ risaf_drv' # risaf_drv
    /\ risaf_drv'.op \in {"reconfigure", "acquire_access"}
    /\ risaf_drv'.at = "idle"
    /\ risaf_drv'.res = TEE_ERROR_BAD_PARAMETERS

FwRefusalWritesNothing ==
    /\ FwRifscRefuses => rifsc_hw' = rifsc_hw
    /\ FwEtzpcRefuses => etzpc_hw' = etzpc_hw
    /\ FwRisafRefuses =>
          /\ risaf_drv'.op = "reconfigure" => risaf_hw' = risaf_drv'.hw0
          /\ risaf_drv'.op = "acquire_access" => risaf_hw' = risaf_hw

\* C21: every RIFSC, RISAF and ETZPC configuration or query call that
\* returns BAD_PARAMETERS leaves every hardware register as it was when the
\* call was entered.
C21_BadParametersNoWrite == [][FwRefusalWritesNothing]_vars

\* A non-TDCID set_config naming an existing RISUP with a CID word other
\* than the one the hardware holds, and with security or privilege bits
\* other than the current ones, was refused with BAD_PARAMETERS.
C21_Witness ==
    /\ fw = "rifsc"
    /\ ~rifsc_pd.is_tdcid
    /\ rifsc_call.op = "set_config"
    /\ rifsc_call.id < NbRisup
    /\ rifsc_call.differs
    /\ rifsc_call.res = TEE_ERROR_BAD_PARAMETERS
    /\ rifsc_call.hw_same

\* The last RIFSC call was a check_access whose query q names a RISUP with
\* CID filtering enabled and passes the security and privilege tests.
RifscCidChecked(q) ==
    /\ rifsc_call.op = "check_access"
    /\ q.argc = 1 /\ q.risup
    /\ q.sec \/ ~TestBit(rifsc_hw.sec, q.id)
    /\ q.priv \/ ~TestBit(rifsc_hw.priv, q.id)
    /\ TestBit(rifsc_hw.cid[q.id], 0)

\* The CID configuration of RISUP id permits compartment cid: white-listed
\* in semaphore mode, equal to the static CID otherwise.
RifscCidPermits(id, cid) ==
    IF TestBit(rifsc_hw.cid[id], 1)
    THEN TestBit(rifsc_hw.cid[id], _CIDCFGR_SEMWL_SHIFT + cid)
    ELSE (rifsc_hw.cid[id] \div BIT(_CIDCFGR_SCID_SHIFT)) % 8 = cid

\* C22: RIFSC check_access for a requesting CID that the RISUP's CID
\* configuration does not permit (not white-listed in semaphore mode, or
\* different from the static CID otherwise) fails with ACCESS_DENIED, and
\* for a permitted CID it succeeds (Scenario B: white-list {1,2}, CID 1
\* succeeds and CID 3 is denied).
C22_CheckAccessDenied ==
    fw = "rifsc" =>
        \A q \in rifsc_call.cfg :
            RifscCidChecked(q) =>
                rifsc_call.res = IF RifscCidPermits(q.id, q.cid)
                                 THEN TEE_SUCCESS
                                 ELSE TEE_ERROR_ACCESS_DENIED

\* The CIDCFGR word RISUP id holds just before write i of the sequence seq,
\* cid0 being the word it held when stm32_risup_cfg was entered.
RECURSIVE RifscCidBefore(_, _, _)
RifscCidBefore(cid0, seq, i) ==
    IF i = 1 THEN cid0
    ELSE IF seq[i - 1].reg = "CIDCFGR" THEN seq[i - 1].val
    ELSE RifscCidBefore(cid0, seq, i - 1)

\* CID filtering is disabled whenever seq writes a security or privilege
\* bit.
RifscClearedAtSecPriv(cid0, seq) ==
    \A i \in 1..Len(seq) :
        seq[i].reg \in {"SEC", "PRIV"} =>
            ~TestBit(RifscCidBefore(cid0, seq, i), 0)

\* This step is a set_config of the TDCID that applies configuration c to a
\* RISUP the hardware has, on a RIFSC with CID filtering.
RifscTdcidConfigures(c) ==
    /\ fw = "rifsc"
    /\ rifsc_pd.is_tdcid /\ rifsc_pd.rif_en
    /\ rifsc_call' # rifsc_call
    /\ rifsc_call'.op = "set_config"
    /\ c.id < NbRisup

RifscCfgStepOrdered ==
    \A c \in rifsc_call'.cfg :
        RifscTdcidConfigures(c) =>
            RifscClearedAtSecPriv(rifsc_hw.cid[c.id],
                                  RisupCfgWriteSeq(rifsc_pd, c))

\* C23: when OP-TEE is the TDCID, configuring a RISUP first clears the
\* RISUP's CID-filtering configuration, then writes the security and
\* privilege bits, and only afterwards writes the new CID word and the
\* lock: the old CID filtering is never in force when the new security or
\* privilege bit is written.
C23_CidClearedFirst == [][RifscCfgStepOrdered]_vars

(***************************************************************************)
(* SpecRimu: the RIMU part of the RIFSC driver with the AHB-RISAB erratum  *)
(* workaround.  OP-TEE is the TDCID; stm32_risup_setup has applied the     *)
(* device tree's RISUP entry; stm32_rimu_setup runs as in the probe, then  *)
(* set_config is called for RIMUs and for RISUP 1.                         *)
(***************************************************************************)
\* RIMUs of the hardware: RIMU 0 has no paired RISUP, RIMU 1 has RISUP 1.
NbRimuPaired == 2

\* Runtime set_config calls after stm32_rimu_setup.
MaxRimuCalls == 2

\* RIMC_ATTRx words: CID inherited (secure master), own CID 2, own CID 0.
RimuAttrs == {BIT(8), BIT(8) + RIFSC_RIMC_CIDSEL_MASK + 2 * BIT(4),
              RIFSC_RIMC_CIDSEL_MASK}

\* CIDCFGR words of the paired RISUP: no filtering, static CID 0, static
\* CID 1, white-list {1,2}, white-list {0,1,2}.
RimuCidWords ==
    {0, _CIDCFGR_CFEN, CidStatic1, CidSem12, CidSem12 + _CIDCFGR_SEMWL(0)}

RimuRisupEntry(id, w) ==
    [id |-> id, sec |-> TRUE, priv |-> FALSE, lock |-> FALSE, cid_attr |-> w,
     pm_sem |-> FALSE]

RimuPdatas ==
    { [risup |-> << e >>,
       rimu |-> << [id |-> 0, attr |-> a[1]], [id |-> 1, attr |-> a[2]] >>,
       is_tdcid |-> TRUE, rif_en |-> f, sec_en |-> TRUE, priv_en |-> TRUE,
       nb_risup |-> NbRisup, nb_rimu |-> NbRimuPaired,
       errata_ahbrisab |-> x[1], insecure |-> x[2]] :
      e \in {RimuRisupEntry(1, w) : w \in RimuCidWords}
               \cup {RimuRisupEntry(0, CidStatic1)},
      a \in RimuAttrs \X RimuAttrs, f \in BOOLEAN,
      x \in BOOLEAN \X BOOLEAN }

\* The registers after stm32_risup_setup applied the entry e.
RimuHwAfterRisups(e) ==
    [sec |-> BIT(e.id), priv |-> 0, lock |-> 0,
     cid |-> [id \in RisupIds |-> IF id = e.id THEN e.cid_attr ELSE 0],
     sem |-> [id \in RisupIds |-> 0],
     rimu |-> [id \in 0..(NbRimuPaired - 1) |-> 0]]

RimuInit ==
    /\ SemIdle /\ ChkIdle /\ RisafIdle /\ BndIdle /\ EtzpcIdle
    /\ fw = "rimu" /\ PwrIdle /\ PrsIdle /\ HpdmaIdle /\ RprocIdle
    /\ rifsc_st = "boot"
    /\ rifsc_pd \in RimuPdatas
    /\ rifsc_hw = RimuHwAfterRisups(rifsc_pd.risup[1])
    /\ rifsc_call = NoCall

\* A RIMU step returned r.
RimuReturn(r, call) ==
    /\ RifscReturn(r, call)
    /\ rifsc_st' = IF r.res = "panic" THEN "panic" ELSE "run"
    /\ UNCHANGED rifsc_pd
    /\ RifscFrame

\* stm32_rifsc_probe: stm32_rimu_setup
RimuSetup ==
    /\ rifsc_st = "boot"
    /\ RimuReturn(PanicIf(stm32_rimu_setup(rifsc_hw, rifsc_pd)),
                  [NoCall EXCEPT !.op = "rimu_setup"])

\* firewall set_config naming a RIMU
RimuSetConfig ==
    /\ rifsc_st = "run"
    /\ rifsc_call.n < MaxRimuCalls
    /\ \E id \in 0..NbRimuPaired, attr \in RimuAttrs :
          RimuReturn(
              stm32_rifsc_set_config(
                  rifsc_hw, rifsc_pd,
                  [argc |-> 1, risup |-> FALSE, id |-> id, sec |-> FALSE,
                   priv |-> FALSE, lock |-> FALSE, cid_attr |-> 0,
                   attr |-> attr], FALSE),
              [NoCall EXCEPT !.op = "rimu_config", !.id = id, !.arg = attr,
                             !.n = rifsc_call.n + 1])

\* firewall set_config naming RISUP 1
RimuRisupSetConfig ==
    /\ rifsc_st = "run"
    /\ rifsc_call.n < MaxRimuCalls
    /\ \E w \in RimuCidWords, keep \in BOOLEAN :
          RimuReturn(
              stm32_rifsc_set_config(
                  rifsc_hw, rifsc_pd,
                  [argc |-> 1, risup |-> TRUE, id |-> 1, sec |-> TRUE,
                   priv |-> FALSE, lock |-> FALSE, cid_attr |-> w,
                   attr |-> 0], keep),
              [NoCall EXCEPT !.op = "set_config", !.id = 1, !.arg = w,
                             !.n = rifsc_call.n + 1])

RimuNext ==
    \/ RimuSetup
    \/ RimuSetConfig
    \/ RimuRisupSetConfig

SpecRimu == RimuInit /\ [][RimuNext]_vars

\* The RIMC attribute attr of RIMU id is one the erratum forbids while the
\* registers are hw: own CID 0, inheritance without a paired RISUP, or
\* inheritance from a RISUP whose effective CID is 0 (filtering disabled,
\* static CID 0 without semaphore, white-list containing CID 0).
RimuForbidden(hw, id, attr) ==
    IF TestBit(attr, 2) THEN (attr \div 16) % 8 = 0
    ELSE \/ id \notin DOMAIN rimu_risup
         \/ rimu_risup[id] = 0
         \/ ~TestBit(hw.cid[rimu_risup[id]], 0)
         \/ /\ ~TestBit(hw.cid[rimu_risup[id]], 1)
            /\ (hw.cid[rimu_risup[id]] \div 16) % 8 = 0
         \/ /\ TestBit(hw.cid[rimu_risup[id]], 1)
            /\ TestBit(hw.cid[rimu_risup[id]], 16)

\* The workaround is active in a build without CFG_INSECURE.
RimuErrataActive ==
    fw = "rimu" /\ rifsc_pd.errata_ahbrisab /\ ~rifsc_pd.insecure

RimuWritesAllowed ==
    /\ \A id \in 0..(NbRimuPaired - 1) :
          (RimuErrataActive /\ rifsc_hw'.rimu[id] # rifsc_hw.rimu[id])
              => ~RimuForbidden(rifsc_hw, id, rifsc_hw'.rimu[id])
    /\ (RimuErrataActive /\ rifsc_call' # rifsc_call
           /\ rifsc_call'.op = "rimu_config"
           /\ rifsc_call'.id < NbRimuPaired
           /\ RimuForbidden(rifsc_hw, rifsc_call'.id, rifsc_call'.arg))
          => rifsc_call'.res = "panic" /\ rifsc_hw' = rifsc_hw

\* C24: with the AHB-RISAB erratum workaround active (and not an insecure
\* build), stm32_rimu_cfg never writes a RIMU attribute that selects CID
\* inheritance from a paired RISUP whose effective CID is 0, nor one that
\* selects inheritance for a RIMU without a paired RISUP, nor an own master
\* CID of 0: every such configuration panics before the attribute register
\* is written.
C24_ErrataNoCid0 == [][RimuWritesAllowed]_vars

\* A set_config asked for RIMU 1 to inherit the CID of RISUP 1 while that
\* RISUP white-lists CID 0, and panicked with the registers untouched.
C24_Witness ==
    /\ RimuErrataActive
    /\ rifsc_pd.rif_en
    /\ rifsc_call.op = "rimu_config"
    /\ rifsc_call.id = 1
    /\ ~TestBit(rifsc_call.arg, 2)
    /\ TestBit(rifsc_hw.cid[1], 1) /\ TestBit(rifsc_hw.cid[1], 16)
    /\ rifsc_call.res = "panic"
    /\ rifsc_call.hw_same

(***************************************************************************)
(* stm32_rif.c: stm32_rif_parse_cfg, which folds one st,protreg cell into   *)
(* the configuration table of a driver.  A cell is kept as the fields the  *)
(* dt-bindings masks select from it: id (RIF_PER_ID_MASK), priv, sec and   *)
(* lock (the bits at RIF_PRIV_SHIFT, RIF_SEC_SHIFT and RIF_LOCK_SHIFT) and *)
(* cid (RIF_PERx_CID_MASK shifted down by RIF_PERx_CID_SHIFT).  A table    *)
(* holds the 32-bit words of access_mask, sec_conf, priv_conf and          *)
(* lock_conf, the cid_confs array, whether the driver allocated lock_conf  *)
(* (has_lock) and whether the call panicked.                               *)
(***************************************************************************)
\* BIT(n) is UINT32_C(1) << n.  A shift by 32 or more is undefined: the
\* builds either use the count modulo 32 (wraps) or produce 0.
BIT_u32(n, wraps) ==
    IF n < 32 THEN BIT(n) ELSE IF wraps THEN BIT(n % 32) ELSE 0

\* conf[conf_index] |= bits
RifConfOr(words, conf_index, bits) ==
    [words EXCEPT ![conf_index] = BitOr(@, bits)]

\* The table a driver allocates with calloc for nb_resource resources.
RifConfEmpty(nb_resource, has_lock) ==
    [access_mask |-> [w \in 0..((nb_resource - 1) \div 32) |-> 0],
     sec_conf    |-> [w \in 0..((nb_resource - 1) \div 32) |-> 0],
     priv_conf   |-> [w \in 0..((nb_resource - 1) \div 32) |-> 0],
     lock_conf   |-> [w \in 0..((nb_resource - 1) \div 32) |-> 0],
     cid_confs   |-> [r \in 0..(nb_resource - 1) |-> 0],
     has_lock    |-> has_lock,
     panic       |-> FALSE]

stm32_rif_parse_cfg_SecIntoPriv(rif_conf, conf_data, nb_cid, nb_resource, wraps) ==
    IF nb_cid > MAX_CID_SUPPORTED \/ rif_conf.id >= nb_resource
    THEN [conf_data EXCEPT !.panic = TRUE]
    ELSE [conf_data EXCEPT
            !.priv_conf = IF rif_conf.sec
                          THEN RifConfOr(@, rif_conf.id \div 32,
                                         BIT_u32(rif_conf.id, wraps))
                          ELSE @,
            !.sec_conf = IF rif_conf.priv
                         THEN RifConfOr(@, rif_conf.id \div 32,
                                        BIT_u32(rif_conf.id, wraps))
                         ELSE @,
            !.lock_conf = IF rif_conf.lock /\ conf_data.has_lock
                          THEN RifConfOr(@, rif_conf.id \div 32,
                                         BIT_u32(rif_conf.id, wraps))
                          ELSE @,
            !.cid_confs = [@ EXCEPT ![rif_conf.id] = rif_conf.cid],
            !.access_mask = RifConfOr(@, rif_conf.id \div 32,
                                      BIT_u32(rif_conf.id, wraps))]

\* stm32_rif_parse_cfg(rif_conf, conf_data, nb_cid_supp, nb_resource)
stm32_rif_parse_cfg(rif_conf, conf_data, nb_cid, nb_resource, wraps) ==
    IF nb_cid > MAX_CID_SUPPORTED \/ rif_conf.id >= nb_resource
    THEN [conf_data EXCEPT !.panic = TRUE]
    ELSE [conf_data EXCEPT
            !.priv_conf = IF rif_conf.priv
                          THEN RifConfOr(@, rif_conf.id \div 32,
                                         BIT_u32(rif_conf.id, wraps))
                          ELSE @,
            !.sec_conf = IF rif_conf.sec
                         THEN RifConfOr(@, rif_conf.id \div 32,
                                        BIT_u32(rif_conf.id, wraps))
                         ELSE @,
            !.lock_conf = IF rif_conf.lock /\ conf_data.has_lock
                          THEN RifConfOr(@, rif_conf.id \div 32,
                                         BIT_u32(rif_conf.id, wraps))
                          ELSE @,
            !.cid_confs = [@ EXCEPT ![rif_conf.id] = rif_conf.cid],
            !.access_mask = RifConfOr(@, rif_conf.id \div 32,
                                      BIT_u32(rif_conf.id, wraps))]

\* Bit (r mod 32) of word (r div 32), shifted down in two steps of less than
\* 16 and of 0 or 16 bits.
RifConfBit(words, r) ==
    ((words[r \div 32] \div BIT(r % 16)) \div BIT((r % 32) - (r % 16))) % 2 = 1

\* The cell a table entry stands for: the resource index and its bits of the
\* security, privilege and lock words, and its cid_confs word.
RifReencode(conf_data, r) ==
    [id   |-> r,
     priv |-> RifConfBit(conf_data.priv_conf, r),
     sec  |-> RifConfBit(conf_data.sec_conf, r),
     lock |-> conf_data.has_lock /\ RifConfBit(conf_data.lock_conf, r),
     cid  |-> conf_data.cid_confs[r]]

\* The resources a table configures.
RifConfigured(conf_data) ==
    {r \in DOMAIN conf_data.cid_confs : RifConfBit(conf_data.access_mask, r)}

(***************************************************************************)
(* SpecPrs: a driver parses the cells of its st,protreg property one by    *)
(* one into a table it allocated empty.                                    *)
(***************************************************************************)
\* Resource counts of the tables: PWR (13), HPDMA (16) and a block with more
\* than 32 channels.
PrsNbResources == {13, 16, 40}

MaxPrsCells == 2

PrsCells ==
    [id : {0, 12, 32, 33}, priv : BOOLEAN, sec : BOOLEAN, lock : BOOLEAN,
     cid : {CidStatic1, CidSem12}]

PrsInit ==
    /\ SemIdle /\ ChkIdle /\ RifscIdle /\ RisafIdle /\ BndIdle /\ EtzpcIdle
    /\ fw = "prs" /\ PwrIdle /\ HpdmaIdle /\ RprocIdle
    /\ \E nb \in PrsNbResources, has_lock \in BOOLEAN, wraps \in BOOLEAN,
          nb_cid \in {MAX_CID_SUPPORTED, MAX_CID_SUPPORTED + 1} :
          prs = [nb_resource |-> nb, nb_cid |-> nb_cid, wraps |-> wraps,
                 n |-> 0, cell |-> [id |-> 0, priv |-> FALSE, sec |-> FALSE,
                                    lock |-> FALSE, cid |-> 0],
                 prev |-> RifConfEmpty(nb, has_lock),
                 conf |-> RifConfEmpty(nb, has_lock)]

notPrs ==
    <<semVars, chk, rifscVars, risafVars, bnd, etzpcVars, fw, pwr, hpdma, rproc>>

\* parse_dt: stm32_rif_parse_cfg(fdt32_to_cpu(cuint[i]), conf_data, ...)
PrsParseCell ==
    /\ prs.n < MaxPrsCells
    /\ ~prs.conf.panic
    /\ \E cell \in PrsCells :
          prs' = [prs EXCEPT
                    !.n = @ + 1,
                    !.cell = cell,
                    !.prev = prs.conf,
                    !.conf = stm32_rif_parse_cfg(cell, prs.conf, prs.nb_cid,
                                                 prs.nb_resource, prs.wraps)]
    /\ UNCHANGED notPrs

PrsNext == PrsParseCell

SpecPrs == PrsInit /\ [][PrsNext]_vars

\* The last cell was parsed without a panic.
PrsParsed == fw = "prs" /\ prs.n > 0 /\ ~prs.conf.panic

\* Resource r2 other than the cell's keeps its bits and its CID word.
PrsOtherKept(r2) ==
    /\ RifConfBit(prs.conf.access_mask, r2) = RifConfBit(prs.prev.access_mask, r2)
    /\ RifConfBit(prs.conf.sec_conf, r2) = RifConfBit(prs.prev.sec_conf, r2)
    /\ RifConfBit(prs.conf.priv_conf, r2) = RifConfBit(prs.prev.priv_conf, r2)
    /\ RifConfBit(prs.conf.lock_conf, r2) = RifConfBit(prs.prev.lock_conf, r2)
    /\ prs.conf.cid_confs[r2] = prs.prev.cid_confs[r2]

\* C28: for every resource index r below the resource count, r >= 32
\* included, after stm32_rif_parse_cfg processed a cell for r, bit (r mod 32)
\* of word (r div 32) of access_mask is set, the same bit of the security,
\* privilege and lock word is set when the cell's flag is set, the CID word
\* is stored at index r, and no bit of another resource changed.
C28_ParseSetsBits ==
    PrsParsed =>
        /\ RifConfBit(prs.conf.access_mask, prs.cell.id)
        /\ prs.cell.sec => RifConfBit(prs.conf.sec_conf, prs.cell.id)
        /\ prs.cell.priv => RifConfBit(prs.conf.priv_conf, prs.cell.id)
        /\ (prs.cell.lock /\ prs.conf.has_lock)
              => RifConfBit(prs.conf.lock_conf, prs.cell.id)
        /\ prs.conf.cid_confs[prs.cell.id] = prs.cell.cid
        /\ \A r2 \in DOMAIN prs.conf.cid_confs \ {prs.cell.id} :
              PrsOtherKept(r2)

\* One cell was parsed into the empty table of a driver of this repository
\* (at most 32 resources).
PrsFirstOfDriver == PrsParsed /\ prs.n = 1 /\ prs.nb_resource <= 32

\* C29 as stated: parsing a cell into an empty table and re-encoding the
\* table entry reproduces the cell's resource index, security, privilege,
\* lock and CID fields, with or without a lock_conf array.
C29_RoundTripWithLock ==
    PrsFirstOfDriver =>
        {RifReencode(prs.conf, r) : r \in RifConfigured(prs.conf)}
            = {prs.cell}

\* C29: parsing a cell into an empty table and re-encoding the table entry
\* reproduces the cell's resource index, security, privilege and CID fields;
\* the lock field is reproduced when the table has a lock_conf array and
\* reads 0 when it has none.
C29_RoundTrip ==
    PrsFirstOfDriver =>
        {RifReencode(prs.conf, r) : r \in RifConfigured(prs.conf)}
            = {[prs.cell EXCEPT !.lock = @ /\ prs.conf.has_lock]}

\* A locked, secure, unprivileged cell of resource 12 went through a table
\* without lock_conf.
C29_Witness ==
    /\ PrsFirstOfDriver
    /\ ~prs.conf.has_lock
    /\ prs.cell.id = 12 /\ prs.cell.lock /\ prs.cell.sec /\ ~prs.cell.priv
    /\ prs.cell.cid = CidSem12
    /\ RifConfigured(prs.conf) = {12}

(***************************************************************************)
(* stm32mp25_pwr.c: the PWR controller.  Resources 0..6 are non-shareable  *)
(* (R registers), resources 7..12 are the shareable wake-up pins WIO1..6.  *)
(* The register file is indexed by the offset from the PWR base.           *)
(***************************************************************************)
_PWR_RSECCFGR == 256

_PWR_RPRIVCFGR == 260

_PWR_R_CIDCFGR(x) == 264 + 4 * x

_PWR_WIOSECCFGR == 384

_PWR_WIOPRIVCFGR == 388

_PWR_WIO_CIDCFGR(x) == 392 + 8 * (x - 1)

_PWR_WIO_SEMCR(x) == 396 + 8 * (x - 1)

_PWR_CIDCFGR_W_CONF_MASK ==
    _CIDCFGR_CFEN + _CIDCFGR_SEMEN + GENMASK_32(6, 4) + GENMASK_32(23, 16)

_PWR_CIDCFGR_R_CONF_MASK == _CIDCFGR_CFEN + GENMASK_32(6, 4)

_PWR_NB_RESSOURCES == 13

_PWR_NB_NS_RESSOURCES == 7

_PWR_NB_MAX_CID_SUPPORTED == 7

PwrRCidAddrs == {_PWR_R_CIDCFGR(x) : x \in 0..(_PWR_NB_NS_RESSOURCES - 1)}

PwrWioCidAddrs ==
    {_PWR_WIO_CIDCFGR(x) :
        x \in 1..(_PWR_NB_RESSOURCES - _PWR_NB_NS_RESSOURCES)}

PwrSemAddrs ==
    {_PWR_WIO_SEMCR(x) :
        x \in 1..(_PWR_NB_RESSOURCES - _PWR_NB_NS_RESSOURCES)}

PwrAddrs ==
    {_PWR_RSECCFGR, _PWR_RPRIVCFGR, _PWR_WIOSECCFGR, _PWR_WIOPRIVCFGR}
        \cup PwrRCidAddrs \cup PwrWioCidAddrs \cup PwrSemAddrs

PwrHwCidBits_AllShareable(addr) == _PWR_CIDCFGR_W_CONF_MASK

\* The bits a CIDCFGR register implements: a non-shareable resource has no
\* semaphore mode (no SEMEN, no white-list).
PwrHwCidBits(addr) ==
    IF addr \in PwrRCidAddrs
    THEN _PWR_CIDCFGR_R_CONF_MASK
    ELSE _PWR_CIDCFGR_W_CONF_MASK

\* The hardware side of a register write by compartment 1.  tdcid_only says
\* whether the hardware drops the CIDCFGR writes of a compartment that is
\* not the TDCID.
PwrHwWrite(hw, addr, val, is_tdcid, tdcid_only) ==
    IF addr \in PwrRCidAddrs \cup PwrWioCidAddrs
    THEN IF ~is_tdcid /\ tdcid_only
         THEN hw
         ELSE [hw EXCEPT ![addr] = BitAnd(val, PwrHwCidBits(addr))]
    ELSE [hw EXCEPT ![addr] = val]

\* stm32_rif_acquire_semaphore(base + addr, _PWR_NB_MAX_CID_SUPPORTED).  At
\* an address that is no SEMCR the MUTEX bit is set in a plain register.
PwrSemAcquire(hw, addr) ==
    IF addr \in PwrSemAddrs
    THEN stm32_rif_acquire_semaphore(hw[addr], _PWR_NB_MAX_CID_SUPPORTED,
                                     SEM_EN_AND_OK(hw[addr - 4], RIF_CID1))
    ELSE [reg |-> AcquireWriteValue(hw[addr]),
          res |-> AcquireResult(AcquireWriteValue(hw[addr]),
                                AcquireWriteValue(hw[addr]),
                                _PWR_NB_MAX_CID_SUPPORTED)]

\* stm32_rif_release_semaphore(base + addr, _PWR_NB_MAX_CID_SUPPORTED)
PwrSemRelease(hw, addr) ==
    IF addr \in PwrSemAddrs
    THEN stm32_rif_release_semaphore(hw[addr], _PWR_NB_MAX_CID_SUPPORTED,
                                     FALSE)
    ELSE IF ReleaseEarlyReturn(hw[addr])
         THEN [reg |-> hw[addr], res |-> TEE_SUCCESS]
         ELSE [reg |-> ReleaseWriteValue(hw[addr]),
               res |-> ReleaseResult(ReleaseWriteValue(hw[addr]),
                                     ReleaseWriteValue(hw[addr]),
                                     _PWR_NB_MAX_CID_SUPPORTED)]

\* parse_dt: the cells of st,protreg parsed from the k-th on.
RECURSIVE PwrParseDt(_, _, _)
PwrParseDt(cells, k, conf_data) ==
    IF k > Len(cells)
    THEN conf_data
    ELSE PwrParseDt(cells, k + 1,
                    stm32_rif_parse_cfg(cells[k], conf_data,
                                        _PWR_NB_MAX_CID_SUPPORTED,
                                        _PWR_NB_RESSOURCES, TRUE))

\* wio_offset = i - _PWR_NB_NS_RESSOURCES + 1, assigned for a shareable
\* resource only; for the others the local keeps its last value.
PwrWioOffset(i, wio_offset) ==
    IF i < _PWR_NB_NS_RESSOURCES
    THEN wio_offset
    ELSE i - _PWR_NB_NS_RESSOURCES + 1

\* The CIDCFGR register the loops address for resource i.
PwrCidAddr(i, wio_offset) ==
    IF i < _PWR_NB_NS_RESSOURCES
    THEN _PWR_R_CIDCFGR(i)
    ELSE _PWR_WIO_CIDCFGR(wio_offset)

\* The mask the loops pass for the CIDCFGR of resource i.
PwrCidMask(i) ==
    IF i < _PWR_NB_NS_RESSOURCES
    THEN _PWR_CIDCFGR_R_CONF_MASK
    ELSE _PWR_CIDCFGR_W_CONF_MASK

\* for (i = 0; i < _PWR_NB_RESSOURCES; i++): the end of one iteration.
PwrAdvance(st, after) ==
    IF st.i + 1 < _PWR_NB_RESSOURCES
    THEN [st EXCEPT !.i = @ + 1]
    ELSE [st EXCEPT !.i = 0, !.pc = after,
                    !.res = IF after = "done" THEN TEE_SUCCESS ELSE @]

\* The call returns res in the middle of a loop.
PwrFail(st, res) == [st EXCEPT !.pc = "done", !.res = res]

\* The result r of a semaphore call at addr for resource st.i.
PwrSemDone(st, op, addr, r, after) ==
    IF r.res # TEE_SUCCESS
    THEN PwrFail([st EXCEPT !.hw[addr] = r.reg,
                            !.log = @ \cup {[op |-> op, at |-> addr,
                                             for |-> st.i]}],
                 r.res)
    ELSE PwrAdvance([st EXCEPT !.hw[addr] = r.reg,
                               !.log = @ \cup {[op |-> op, at |-> addr,
                                                for |-> st.i]}],
                    after)

\* First loop, lines 128-141: the clearing write of the TDCID.
PwrAcqClear(st, addr) ==
    IF st.is_tdcid
    THEN [st EXCEPT
            !.wio_offset = PwrWioOffset(st.i, @),
            !.hw = PwrHwWrite(@, addr, BitClr(st.hw[addr], PwrCidMask(st.i)),
                              st.is_tdcid, st.tdcid_only),
            !.log = @ \cup {[op |-> "clr", at |-> addr, for |-> st.i]}]
    ELSE [st EXCEPT !.wio_offset = PwrWioOffset(st.i, @)]

\* First loop, lines 143-161: the read of CIDCFGR and the acquire.
PwrAcqSem(st, addr) ==
    IF SEM_MODE_INCORRECT(st.hw[addr])
    THEN PwrAdvance(st, "secpriv")
    ELSE PwrSemDone(st, "sem_acq", _PWR_WIO_SEMCR(st.wio_offset),
                    PwrSemAcquire(st.hw, _PWR_WIO_SEMCR(st.wio_offset)),
                    "secpriv")

\* One iteration of the first loop of apply_rif_config.
PwrAcqIter(st) ==
    IF ~TestBit(st.conf.access_mask[0], st.i)
    THEN PwrAdvance(st, "secpriv")
    ELSE PwrAcqSem(
             PwrAcqClear(st, PwrCidAddr(st.i, PwrWioOffset(st.i, st.wio_offset))),
             PwrCidAddr(st.i, PwrWioOffset(st.i, st.wio_offset)))

\* io_clrsetbits32(addr, clear_mask, set_mask): the value written.
ClrSetValue(old, clear_mask, set_mask) == BitOr(BitClr(old, clear_mask), set_mask)

\* Lines 164-181: the security and privilege registers.
PwrSecPriv(st) ==
    [st EXCEPT
        !.pc = "cfg",
        !.hw = [@ EXCEPT
                  ![_PWR_RPRIVCFGR] =
                      ClrSetValue(@, GENMASK_32(6, 0),
                                  BitAnd(st.conf.priv_conf[0], GENMASK_32(6, 0))),
                  ![_PWR_RSECCFGR] =
                      ClrSetValue(@, GENMASK_32(6, 0),
                                  BitAnd(st.conf.sec_conf[0], GENMASK_32(6, 0))),
                  ![_PWR_WIOPRIVCFGR] =
                      ClrSetValue(@, GENMASK_32(5, 0),
                                  BitAnd(st.conf.priv_conf[0], GENMASK_32(12, 7))
                                      \div BIT(_PWR_NB_NS_RESSOURCES)),
                  ![_PWR_WIOSECCFGR] =
                      ClrSetValue(@, GENMASK_32(5, 0),
                                  BitAnd(st.conf.sec_conf[0], GENMASK_32(12, 7))
                                      \div BIT(_PWR_NB_NS_RESSOURCES))],
        !.log = @ \cup {[op |-> "secpriv", at |-> _PWR_RSECCFGR, for |-> 0]}]

\* Second loop, lines 187-200: the CID configuration write.
PwrCfgWrite(st, addr) ==
    [st EXCEPT
        !.wio_offset = PwrWioOffset(st.i, @),
        !.hw = PwrHwWrite(@, addr,
                          ClrSetValue(st.hw[addr], PwrCidMask(st.i),
                                      st.conf.cid_confs[st.i]),
                          st.is_tdcid, st.tdcid_only),
        !.log = @ \cup {[op |-> "cfg", at |-> addr, for |-> st.i]}]

\* Second loop, lines 202-212: the read of CIDCFGR and the release.
PwrCfgSem(st, addr) ==
    IF SEM_MODE_INCORRECT(st.hw[addr])
    THEN PwrAdvance(st, "done")
    ELSE PwrSemDone(st, "sem_rel", _PWR_WIO_SEMCR(st.wio_offset),
                    PwrSemRelease(st.hw, _PWR_WIO_SEMCR(st.wio_offset)),
                    "done")

\* One iteration of the second loop of apply_rif_config.
PwrCfgIter(st) ==
    IF ~TestBit(st.conf.access_mask[0], st.i)
    THEN PwrAdvance(st, "done")
    ELSE PwrCfgSem(
             PwrCfgWrite(st, PwrCidAddr(st.i, PwrWioOffset(st.i, st.wio_offset))),
             PwrCidAddr(st.i, PwrWioOffset(st.i, st.wio_offset)))

(***************************************************************************)
(* SpecPwr: stm32mp_pwr_probe parses st,protreg and runs apply_rif_config  *)
(* one loop iteration at a time, on registers at reset or as the TDCID     *)
(* left them.                                                              *)
(***************************************************************************)
PwrCells ==
    {[id |-> id, priv |-> f, sec |-> f, lock |-> FALSE, cid |-> c] :
        id \in {1, 7, 12}, f \in BOOLEAN,
        c \in {0, CidStatic1, CidSem12, CidSem2}}

\* st,protreg: absent, one cell, or two cells of different resources.
PwrDts ==
    {<< >>} \cup {<<c>> : c \in PwrCells}
        \cup {<<c1, c2>> : c1 \in {c \in PwrCells : c.id = 1},
                           c2 \in {c \in PwrCells : c.id > 1}}
        \cup {<<c1, c2>> : c1 \in {c \in PwrCells : c.id = 7},
                           c2 \in {c \in PwrCells : c.id = 12}}

PwrHwReset == [a \in PwrAddrs |-> 0]

\* The registers as a TDCID left them: what it wrote to the CIDCFGR of
\* resource 1 (r1), WIO1 (w1) and WIO6 (w6), and the SEMCR of WIO6.
PwrHwImage(r1, w1, w6, sem6) ==
    [PwrHwReset EXCEPT
        ![_PWR_R_CIDCFGR(1)] = BitAnd(r1, PwrHwCidBits(_PWR_R_CIDCFGR(1))),
        ![_PWR_WIO_CIDCFGR(1)] = w1,
        ![_PWR_WIO_CIDCFGR(6)] = w6,
        ![_PWR_WIO_SEMCR(6)] = sem6]

PwrHws ==
    {PwrHwReset,
     PwrHwImage(CidStatic1, CidSem12, CidSem2, 0),
     PwrHwImage(CidSem12, CidSem2, CidSem12,
                _SEMCR_MUTEX + 2 * BIT(_SEMCR_SEMCID_SHIFT))}

PwrInit ==
    /\ SemIdle /\ ChkIdle /\ RifscIdle /\ RisafIdle /\ BndIdle /\ EtzpcIdle
    /\ fw = "pwr" /\ PrsIdle /\ HpdmaIdle /\ RprocIdle
    /\ \E dt \in PwrDts, hw \in PwrHws, is_tdcid \in BOOLEAN,
          tdcid_only \in BOOLEAN :
          pwr = [pc |-> "boot", dt |-> dt, is_tdcid |-> is_tdcid,
                 tdcid_only |-> tdcid_only, hw |-> hw,
                 conf |-> RifConfEmpty(_PWR_NB_RESSOURCES, FALSE),
                 i |-> 0, wio_offset |-> 0, res |-> "none", log |-> {}]

notPwr ==
    <<semVars, chk, rifscVars, risafVars, bnd, etzpcVars, fw, prs, hpdma, rproc>>

\* stm32mp_pwr_probe: parse_dt, then apply_rif_config up to its first loop.
PwrProbe ==
    /\ pwr.pc = "boot"
    /\ pwr' = IF pwr.dt = << >>
              THEN [pwr EXCEPT !.pc = "done", !.res = TEE_SUCCESS]
              ELSE [pwr EXCEPT !.pc = "acq",
                               !.conf = PwrParseDt(pwr.dt, 1, pwr.conf)]
    /\ UNCHANGED notPwr

PwrAcquireStep ==
    /\ pwr.pc = "acq"
    /\ pwr' = PwrAcqIter(pwr)
    /\ UNCHANGED notPwr

PwrSecPrivStep ==
    /\ pwr.pc = "secpriv"
    /\ pwr' = PwrSecPriv(pwr)
    /\ UNCHANGED notPwr

PwrConfigStep ==
    /\ pwr.pc = "cfg"
    /\ pwr' = PwrCfgIter(pwr)
    /\ UNCHANGED notPwr

PwrNext == PwrProbe \/ PwrAcquireStep \/ PwrSecPrivStep \/ PwrConfigStep

SpecPwr == PwrInit /\ [][PwrNext]_vars

\* apply_rif_config returned TEE_SUCCESS after applying a configuration.
PwrApplied ==
    fw = "pwr" /\ pwr.pc = "done" /\ pwr.res = TEE_SUCCESS /\ pwr.dt # << >>

\* C25: when OP-TEE is not the TDCID, apply_rif_config writes no CIDCFGR of
\* any PWR resource, neither the clearing write nor the final configuration
\* write.
C25_NoCidWriteUnlessTdcid ==
    (fw = "pwr" /\ ~pwr.is_tdcid)
        => \A e \in pwr.log : e.op \notin {"clr", "cfg"}

\* The device tree configures shareable resource i with filtering and
\* semaphore mode enabled and compartment 1 white-listed.
PwrSemForCid1(i) ==
    /\ TestBit(pwr.conf.access_mask[0], i)
    /\ ~SEM_MODE_INCORRECT(pwr.conf.cid_confs[i])

\* C26: after apply_rif_config returned success, every shareable resource
\* configured with filtering and semaphore mode enabled and compartment 1
\* white-listed has its semaphore held by compartment 1, and the semaphore
\* of every other shareable resource is not held by compartment 1.
C26_SemHeldAfterApply ==
    PwrApplied =>
        \A x \in 1..(_PWR_NB_RESSOURCES - _PWR_NB_NS_RESSOURCES) :
            HeldBy(pwr.hw[_PWR_WIO_SEMCR(x)], RIF_CID1)
                <=> PwrSemForCid1(x + _PWR_NB_NS_RESSOURCES - 1)

\* C27: apply_rif_config addresses the CIDCFGR of a non-shareable resource
\* i < 7 at 0x108 + 4 * i and that of a shareable one at
\* 0x188 + 8 * (i - 7), and every semaphore access is for a shareable
\* resource, at the SEMCR 0x18C + 8 * (i - 7) of the resource being
\* processed.
C27_PwrAddressing ==
    fw = "pwr" =>
        \A e \in pwr.log :
            /\ e.op \in {"clr", "cfg"} =>
                  e.at = IF e.for < 7 THEN 264 + 4 * e.for
                                      ELSE 392 + 8 * (e.for - 7)
            /\ e.op \in {"sem_acq", "sem_rel"} =>
                  e.for >= 7 /\ e.at = 396 + 8 * (e.for - 7)

\* As the TDCID, the call configured non-shareable resource 1 with a word
\* asking for semaphore mode and then took no semaphore for it, and
\* configured WIO6 (resource 12) and released the semaphore at its SEMCR.
C27_Witness ==
    /\ PwrApplied
    /\ pwr.is_tdcid
    /\ pwr.conf.cid_confs[1] = CidSem12
    /\ [op |-> "cfg", at |-> 268, for |-> 1] \in pwr.log
    /\ [op |-> "cfg", at |-> 432, for |-> 12] \in pwr.log
    /\ [op |-> "sem_rel", at |-> 436, for |-> 12] \in pwr.log

(***************************************************************************)
(* SpecEtzpcMt: etzpc_do_configure_decprot called from several cores at    *)
(* once, one register access at a time.  Here etzpc_hw holds the DECPROTx  *)
(* words, etzpc_drv the spinlock of the device (0 when free, else the      *)
(* thread holding it), and etzpc_call each thread's position (th), the     *)
(* attribute last requested for each peripheral (want) and the number of   *)
(* calls made (n).  The peripherals are not locked in DECPROT_LOCKx.       *)
(***************************************************************************)
IDS_PER_DECPROT_REGS == 16

DECPROT_SHIFT == 1

ETZPC_DECPROT0_MASK == GENMASK_32(1, 0)

NumThreads == 2

MaxMtCalls == 3

\* Peripherals of the first DECPROT register (two neighbours and a far one)
\* and one of the second register.
EtzpcMtIds == {0, 1, 14, 16}

\* offset / 4 = decprot_id / IDS_PER_DECPROT_REGS
DecprotReg(decprot_id) == decprot_id \div IDS_PER_DECPROT_REGS

\* shift = (decprot_id % IDS_PER_DECPROT_REGS) << DECPROT_SHIFT
DecprotShift(decprot_id) ==
    (decprot_id % IDS_PER_DECPROT_REGS) * BIT(DECPROT_SHIFT)

\* The two-bit field of peripheral decprot_id in the DECPROT words.
DecprotField(words, decprot_id) ==
    (words[DecprotReg(decprot_id)] \div BIT(DecprotShift(decprot_id))) % 4

\* The words at boot: every peripheral secure, or every peripheral of
\* fields 0..14 of each word non-secure read / secure write.
EtzpcMtBootWords ==
    {[r \in 0..1 |-> 0], [r \in 0..1 |-> 357913941]}

EtzpcMtInit ==
    /\ SemIdle /\ ChkIdle /\ RifscIdle /\ RisafIdle /\ BndIdle
    /\ fw = "etzpc_mt" /\ PwrIdle /\ PrsIdle /\ HpdmaIdle /\ RprocIdle
    /\ etzpc_hw \in EtzpcMtBootWords
    /\ etzpc_drv = 0
    /\ etzpc_call = [th |-> [t \in 1..NumThreads |->
                               [pc |-> "idle", id |-> 0, attr |-> 0, rd |-> 0]],
                     want |-> [id \in EtzpcMtIds |->
                                 DecprotField(etzpc_hw, id)],
                     n |-> 0]

\* Thread t is inside a call for peripheral id.
EtzpcMtBusy(t, id) ==
    etzpc_call.th[t].pc # "idle" /\ etzpc_call.th[t].id = id

\* A caller enters etzpc_do_configure_decprot(dev, id, attr) for a
\* peripheral no other running call names.
EtzpcMtEnter(t) ==
    /\ etzpc_call.th[t].pc = "idle"
    /\ etzpc_call.n < MaxMtCalls
    /\ \E id \in EtzpcMtIds, attr \in 0..3 :
          /\ \A u \in 1..NumThreads : ~EtzpcMtBusy(u, id)
          /\ etzpc_call' = [etzpc_call EXCEPT
                              !.th[t] = [pc |-> "lock", id |-> id,
                                         attr |-> attr, rd |-> 0],
                              !.want[id] = attr,
                              !.n = @ + 1]
    /\ UNCHANGED <<etzpc_hw, etzpc_drv, notEtzpc>>

EtzpcMtLockFree_NoLock(lock) == TRUE

\* cpu_spin_lock_xsave: the caller spins until the lock is free.
EtzpcMtLockFree(lock) == lock = 0

\* exceptions = etzpc_lock(etzpc_dev)
EtzpcMtLock(t) ==
    /\ etzpc_call.th[t].pc = "lock"
    /\ EtzpcMtLockFree(etzpc_drv)
    /\ etzpc_drv' = t
    /\ etzpc_call' = [etzpc_call EXCEPT !.th[t].pc = "read"]
    /\ UNCHANGED <<etzpc_hw, notEtzpc>>

\* io_clrsetbits32: the read of DECPROTx
EtzpcMtRead(t) ==
    /\ etzpc_call.th[t].pc = "read"
    /\ etzpc_call' = [etzpc_call EXCEPT
                        !.th[t].pc = "write",
                        !.th[t].rd = etzpc_hw[DecprotReg(etzpc_call.th[t].id)]]
    /\ UNCHANGED <<etzpc_hw, etzpc_drv, notEtzpc>>

\* io_clrsetbits32: the write of (read & ~(MASK << shift)) |
\* (masked_decprot << shift)
EtzpcMtWrite(t) ==
    /\ etzpc_call.th[t].pc = "write"
    /\ etzpc_hw' = [etzpc_hw EXCEPT
                      ![DecprotReg(etzpc_call.th[t].id)] =
                          ClrSetValue(
                              etzpc_call.th[t].rd,
                              ETZPC_DECPROT0_MASK
                                  * BIT(DecprotShift(etzpc_call.th[t].id)),
                              BitAnd(etzpc_call.th[t].attr, ETZPC_DECPROT0_MASK)
                                  * BIT(DecprotShift(etzpc_call.th[t].id)))]
    /\ etzpc_call' = [etzpc_call EXCEPT !.th[t].pc = "unlock"]
    /\ UNCHANGED <<etzpc_drv, notEtzpc>>

\* etzpc_unlock(etzpc_dev, exceptions)
EtzpcMtUnlock(t) ==
    /\ etzpc_call.th[t].pc = "unlock"
    /\ etzpc_drv' = 0
    /\ etzpc_call' = [etzpc_call EXCEPT !.th[t].pc = "idle"]
    /\ UNCHANGED <<etzpc_hw, notEtzpc>>

EtzpcMtNext ==
    \E t \in 1..NumThreads :
        \/ EtzpcMtEnter(t)
        \/ EtzpcMtLock(t)
        \/ EtzpcMtRead(t)
        \/ EtzpcMtWrite(t)
        \/ EtzpcMtUnlock(t)

SpecEtzpcMt == EtzpcMtInit /\ [][EtzpcMtNext]_vars

\* C30: under any interleaving of concurrent etzpc_do_configure_decprot
\* calls for distinct peripheral ids, also ids sharing one DECPROT register,
\* every peripheral no running call names holds the attribute last requested
\* for it, and the field it had at boot if none was requested: no update is
\* lost and no other field is changed.
C30_NoLostUpdate ==
    fw = "etzpc_mt" =>
        \A id \in EtzpcMtIds :
            (\A t \in 1..NumThreads : ~EtzpcMtBusy(t, id))
                => DecprotField(etzpc_hw, id) = etzpc_call.want[id]

\* Thread 1 waits for the lock with a call for peripheral 0 while thread 2
\* holds it and has read DECPROT0 for peripheral 1, after a first call for
\* peripheral 14 changed the same register.
C30_Witness ==
    /\ fw = "etzpc_mt"
    /\ etzpc_call.th[1].pc = "lock" /\ etzpc_call.th[1].id = 0
    /\ etzpc_call.th[1].attr = 3
    /\ etzpc_call.th[2].pc = "write" /\ etzpc_call.th[2].id = 1
    /\ etzpc_drv = 2
    /\ etzpc_call.n = 3
    /\ DecprotField(etzpc_hw, 14) = 2
    /\ DecprotField(etzpc_hw, 0) = 1

(***************************************************************************)
(* SpecRifscApi: the operations the RIFSC driver exports, called after the *)
(* probe in any order: set_config and stm32_rifsc_reconfigure_risup (as    *)
(* the first call), stm32_rifsc_cid_is_enabled / cid_enable / cid_disable, *)
(* the firewall check_access / acquire_access / release_access, and the    *)
(* PM callback, with a loss of the semaphore registers between suspend and *)
(* resume.  Compartment 2 takes and releases semaphores in between.        *)
(***************************************************************************)
MaxApiCalls == 2

\* Firewall queries of the access operations: args[0] holds a RISUP id
\* alone, or with the secure and privileged flags, or with a CID to check;
\* and a RIMU id.
RifscApiQueries ==
    { [argc |-> 1, risup |-> TRUE, id |-> id, sec |-> f, priv |-> f,
       cid |-> c] : id \in RisupIds, f \in BOOLEAN, c \in {0, RIF_CID1} }
    \cup
    { [argc |-> 1, risup |-> FALSE, id |-> 0, sec |-> TRUE, priv |-> TRUE,
       cid |-> RIF_CID1] }

\* args[0] holds nothing but the resource id.
ArgIsBareId(q) == ~q.sec /\ ~q.priv /\ q.cid = 0

\* stm32_rifsc_cid_is_enabled
stm32_rifsc_cid_is_enabled(hw, rifc_id) ==
    BitAnd(hw.cid[rifc_id], _CIDCFGR_CFEN) = _CIDCFGR_CFEN

stm32_rifsc_cid_disable_ClearsWord(hw, rifc_id, accepted) ==
    [hw |-> HwWriteCidcfgr(hw, accepted, rifc_id, 0), res |-> "void", wr |-> {"CIDCFGR"}]

\* stm32_rifsc_cid_disable: [hw, res, wr]; accepted is whether the hardware
\* takes a CIDCFGR write of this compartment.
stm32_rifsc_cid_disable(hw, rifc_id, accepted) ==
    [hw |-> HwWriteCidcfgr(hw, accepted, rifc_id, BitClr(hw.cid[rifc_id], _CIDCFGR_CFEN)), res |-> "void", wr |-> {"CIDCFGR"}]

\* stm32_rifsc_cid_enable
stm32_rifsc_cid_enable(hw, rifc_id, accepted) ==
    [hw |-> HwWriteCidcfgr(hw, accepted, rifc_id, BitOr(hw.cid[rifc_id], _CIDCFGR_CFEN)), res |-> "void", wr |-> {"CIDCFGR"}]

\* stm32_rifsc_release_access: id = firewall->args[0], the whole word, and
\* if (id >= RIMU_ID_OFFSET) return.  The id field is the low bits of the
\* word (RIF_PER_ID_MASK is applied without a shift) and RIMU_ID_OFFSET is
\* a value of that field, so a word with a flag or CID bit set is past
\* RIMU_ID_OFFSET.
ReleaseAccessReturnsEarly(q) == ~q.risup \/ ~ArgIsBareId(q)

\* stm32_rifsc_release_access after stm32_rif_release_semaphore returned s.
ReleaseAccessDone(hw, id, s) ==
    [hw |-> [hw EXCEPT !.sem[id] = s.reg],
     res |-> IF s.res # TEE_SUCCESS THEN "panic" ELSE "void",
     wr |-> {"SEM_REL"}]

\* stm32_rifsc_release_access: [hw, res, wr]
stm32_rifsc_release_access(hw, q, keep) ==
    IF ReleaseAccessReturnsEarly(q) THEN [hw |-> hw, res |-> "void", wr |-> {}]
    ELSE IF ~SEM_EN_AND_OK(hw.cid[q.id], RIF_CID1)
    THEN [hw |-> hw, res |-> "void", wr |-> {}]
    ELSE ReleaseAccessDone(hw, q.id,
             stm32_rif_release_semaphore(hw.sem[q.id], MAX_CID_SUPPORTED, keep))

\* The number of rounds of the PM loops: i < nrisup && i < nb_risup.
PmRounds(pd) ==
    IF Len(pd.risup) < pd.nb_risup THEN Len(pd.risup) ELSE pd.nb_risup

\* stm32_rifsc_sem_pm_suspend: round i reads the SEMCR at
\* _OFFSET_PERX_CIDCFGR * i and saves it in rifsc_pdata.risup + i.
stm32_rifsc_sem_pm_suspend(hw, pd) ==
    [pd EXCEPT !.risup =
        [i \in 1..Len(pd.risup) |->
            IF i <= PmRounds(pd)
            THEN [pd.risup[i] EXCEPT !.pm_sem = HeldBy(hw.sem[i - 1], RIF_CID1)]
            ELSE pd.risup[i]]]

\* stm32_rifsc_sem_pm_resume, "Update RISUPs fields": entry e read back from
\* the registers of RISUP e.id.
ResumeEntry(hw, e) ==
    [e EXCEPT !.cid_attr = hw.cid[e.id], !.sec = TestBit(hw.sec, e.id),
              !.priv = TestBit(hw.priv, e.id), !.lock = TestBit(hw.lock, e.id)]

\* One round of the resume loop that acquires: s is the outcome of
\* stm32_rif_acquire_semaphore.
ResumeAcquired(prev, i, e, s) ==
    [hw |-> [prev.hw EXCEPT !.sem[e.id] = s.reg],
     pd |-> [prev.pd EXCEPT !.risup[i] = e],
     res |-> IF s.res # TEE_SUCCESS THEN TEE_ERROR_ACCESS_DENIED
             ELSE TEE_SUCCESS]

\* One round of the resume loop for entry e, already read back.
ResumeStep(prev, i, e) ==
    IF SEM_MODE_INCORRECT(e.cid_attr) \/ ~e.pm_sem
    THEN [prev EXCEPT !.pd.risup[i] = e]
    ELSE ResumeAcquired(prev, i, e,
             stm32_rif_acquire_semaphore(prev.hw.sem[e.id], MAX_CID_SUPPORTED,
                                         HwSemAllowed(prev.hw, e.id, RIF_CID1)))

\* The loop returns at the first semaphore it cannot take.
ResumeRound(prev, i) ==
    IF prev.res # TEE_SUCCESS THEN prev
    ELSE ResumeStep(prev, i, ResumeEntry(prev.hw, prev.pd.risup[i]))

RECURSIVE ResumeUpTo(_, _, _)
ResumeUpTo(hw, pd, i) ==
    IF i = 0 THEN [hw |-> hw, pd |-> pd, res |-> TEE_SUCCESS]
    ELSE ResumeRound(ResumeUpTo(hw, pd, i - 1), i)

\* stm32_rifsc_sem_pm_resume: [hw, pd, res]
stm32_rifsc_sem_pm_resume(hw, pd) == ResumeUpTo(hw, pd, PmRounds(pd))

\* The RISUPs whose semaphore compartment 1 holds.
HeldByCid1(hw) == {id \in RisupIds : HeldBy(hw.sem[id], RIF_CID1)}

\* The device trees and boot registers of SpecRifscApi: every security
\* feature enabled.
RifscApiInit ==
    /\ SemIdle /\ ChkIdle /\ RisafIdle /\ BndIdle /\ EtzpcIdle
    /\ fw = "rifsc_api" /\ PwrIdle /\ PrsIdle /\ HpdmaIdle /\ RprocIdle
    /\ rifsc_st = "boot"
    /\ rifsc_pd \in {pd \in RifscPdatas : pd.rif_en /\ pd.sec_en /\ pd.priv_en}
    /\ rifsc_hw \in HwAtBoot(rifsc_pd)
    /\ rifsc_call = NoCall

\* The record of exported call op on RISUP id with query set cfg.
ApiCall(op, id, cfg) ==
    [NoCall EXCEPT !.op = op, !.id = id, !.cfg = cfg, !.n = rifsc_call.n + 1]

ApiReady == rifsc_st = "run" /\ rifsc_call.n < MaxApiCalls

\* stm32_rifsc_cid_is_enabled
RifscCidIsEnabled ==
    /\ ApiReady
    /\ \E id \in RisupIds :
          RifscReturn([hw |-> rifsc_hw,
                       res |-> IF stm32_rifsc_cid_is_enabled(rifsc_hw, id)
                               THEN "enabled" ELSE "disabled",
                       wr |-> {}],
                      ApiCall("cid_is_enabled", id, {}))
    /\ UNCHANGED <<rifsc_st, rifsc_pd>>
    /\ RifscFrame

\* stm32_rifsc_cid_enable
RifscCidEnable ==
    /\ ApiReady
    /\ \E id \in RisupIds, accepted \in BOOLEAN :
          RifscReturn(stm32_rifsc_cid_enable(rifsc_hw, id,
                                             rifsc_pd.is_tdcid \/ accepted),
                      ApiCall("cid_enable", id, {}))
    /\ UNCHANGED <<rifsc_st, rifsc_pd>>
    /\ RifscFrame

\* stm32_rifsc_cid_disable
RifscCidDisable ==
    /\ ApiReady
    /\ \E id \in RisupIds, accepted \in BOOLEAN :
          RifscReturn(stm32_rifsc_cid_disable(rifsc_hw, id,
                                              rifsc_pd.is_tdcid \/ accepted),
                      ApiCall("cid_disable", id, {}))
    /\ UNCHANGED <<rifsc_st, rifsc_pd>>
    /\ RifscFrame

\* firewall check_access
RifscApiCheckAccess ==
    /\ ApiReady
    /\ \E q \in RifscApiQueries :
          RifscReturn([hw |-> rifsc_hw,
                       res |-> stm32_rifsc_check_access(rifsc_hw, q),
                       wr |-> {}],
                      ApiCall("check_access", q.id, {q}))
    /\ UNCHANGED <<rifsc_st, rifsc_pd>>
    /\ RifscFrame

\* firewall acquire_access
RifscApiAcquireAccess ==
    /\ ApiReady
    /\ \E q \in RifscApiQueries :
          RifscReturn(stm32_rifsc_acquire_access(rifsc_hw, q),
                      ApiCall("acquire_access", q.id, {q}))
    /\ UNCHANGED <<rifsc_st, rifsc_pd>>
    /\ RifscFrame

\* The call before was an acquire_access with query q that returned success
\* for a RISUP in semaphore mode, whose semaphore compartment 1 now holds.
AcquiredWith(q) ==
    /\ rifsc_call.op = "acquire_access"
    /\ rifsc_call.res = TEE_SUCCESS
    /\ rifsc_call.cfg = {q}
    /\ q.risup
    /\ SEM_EN_AND_OK(rifsc_hw.cid[q.id], RIF_CID1)
    /\ HeldBy(rifsc_hw.sem[q.id], RIF_CID1)

\* firewall release_access
RifscApiReleaseAccess ==
    /\ ApiReady
    /\ \E q \in RifscApiQueries, keep \in BOOLEAN :
          RifscReturn(stm32_rifsc_release_access(rifsc_hw, q, keep),
                      [ApiCall("release_access", q.id, {q})
                          EXCEPT !.locked = AcquiredWith(q)])
    /\ rifsc_st' = IF rifsc_call'.res = "panic" THEN "panic" ELSE "run"
    /\ UNCHANGED rifsc_pd
    /\ RifscFrame

\* stm32_rifsc_sem_pm(PM_OP_SUSPEND, CONTEXT); the record keeps the RISUPs
\* whose semaphore compartment 1 holds.
RifscPmSuspend ==
    /\ ApiReady
    /\ rifsc_pd' = stm32_rifsc_sem_pm_suspend(rifsc_hw, rifsc_pd)
    /\ rifsc_call' = [ApiCall("suspend", 0, HeldByCid1(rifsc_hw))
                         EXCEPT !.res = TEE_SUCCESS]
    /\ rifsc_st' = "suspended"
    /\ UNCHANGED rifsc_hw
    /\ RifscFrame

\* The power domain is switched off: the semaphores are free when it comes
\* back; the configuration registers are restored before the PM callbacks.
RifscPowerLoss ==
    /\ rifsc_st = "suspended"
    /\ rifsc_hw.sem # HwReset.sem
    /\ rifsc_hw' = [rifsc_hw EXCEPT !.sem = HwReset.sem]
    /\ UNCHANGED <<rifsc_st, rifsc_pd, rifsc_call>>
    /\ RifscFrame

\* stm32_rifsc_sem_pm(PM_OP_RESUME, CONTEXT) returned r.
PmResumeReturn(r) ==
    /\ rifsc_hw' = r.hw
    /\ rifsc_pd' = r.pd
    /\ rifsc_call' = [rifsc_call EXCEPT !.op = "resume", !.res = r.res,
                         !.hw_same = (r.hw = rifsc_hw)]

RifscPmResume ==
    /\ rifsc_st = "suspended"
    /\ PmResumeReturn(stm32_rifsc_sem_pm_resume(rifsc_hw, rifsc_pd))
    /\ rifsc_st' = "run"
    /\ RifscFrame

\* Compartment 2 takes a semaphore while OP-TEE is suspended.
RifscOtherAcquireSuspended ==
    /\ rifsc_st = "suspended"
    /\ \E id \in RisupIds :
          /\ ~SemTaken(rifsc_hw.sem[id])
          /\ HwSemAllowed(rifsc_hw, id, 2)
          /\ rifsc_hw' = [rifsc_hw EXCEPT !.sem[id] =
                HwSemcrWrite(@, 2, _SEMCR_MUTEX, TRUE, FALSE, FALSE)]
    /\ UNCHANGED <<rifsc_st, rifsc_pd, rifsc_call>>
    /\ RifscFrame

RifscApiNext ==
    \/ RifscProbe
    \/ RifscSetConfig
    \/ RifscReconfigureRisup
    \/ RifscCidIsEnabled
    \/ RifscCidEnable
    \/ RifscCidDisable
    \/ RifscApiCheckAccess
    \/ RifscApiAcquireAccess
    \/ RifscApiReleaseAccess
    \/ RifscPmSuspend
    \/ RifscPowerLoss
    \/ RifscPmResume
    \/ RifscOtherAcquire
    \/ RifscOtherRelease
    \/ RifscOtherAcquireSuspended

SpecRifscApi == RifscApiInit /\ [][RifscApiNext]_vars

\* The CID-filtering enable bit of RISUP id.
CfenOf(hw, id) == BitAnd(hw.cid[id], _CIDCFGR_CFEN) # 0

\* The compartment holding the semaphore of RISUP id, 0 when it is free.
SemOwner(hw, id) ==
    IF SemTaken(hw.sem[id]) THEN SemHolder(hw.sem[id]) ELSE 0

\* A step in which the driver ran an exported operation.
ApiStep == rifsc_call' # rifsc_call

\* The operations that end in stm32_risup_cfg.
ApplyConfigOps == {"probe", "set_config", "reconfigure"}

CfenChanges(id) == CfenOf(rifsc_hw', id) # CfenOf(rifsc_hw, id)

SemOwnerChanges(id) == SemOwner(rifsc_hw', id) # SemOwner(rifsc_hw, id)

\* C31 as stated: an exported operation that changes the CID-filtering
\* enable bit or the semaphore owner of a RISUP is one of the
\* apply-configuration operations.
C31_OnlyApplyConfig ==
    [][ApiStep /\ (\E id \in RisupIds : CfenChanges(id) \/ SemOwnerChanges(id))
          => rifsc_call'.op \in ApplyConfigOps]_vars

\* C31: an exported operation changes the CID-filtering enable bit of a
\* RISUP only if it is an apply-configuration operation or it is
\* stm32_rifsc_cid_enable / stm32_rifsc_cid_disable called for that RISUP,
\* and these two change no other bit of a CIDCFGR; it changes the owner of
\* a semaphore only if it is an apply-configuration operation,
\* acquire_access, release_access or the PM resume callback.
C31_FilterStateFrame ==
    [][ApiStep =>
         \A id \in RisupIds :
            /\ CfenChanges(id) =>
                  \/ rifsc_call'.op \in ApplyConfigOps
                  \/ /\ rifsc_call'.op \in {"cid_enable", "cid_disable"}
                     /\ rifsc_call'.id = id
            /\ SemOwnerChanges(id) =>
                  rifsc_call'.op \in ApplyConfigOps
                     \cup {"acquire_access", "release_access", "resume"}
            /\ rifsc_call'.op \in {"cid_enable", "cid_disable"} =>
                  BitClr(rifsc_hw'.cid[id], _CIDCFGR_CFEN)
                     = BitClr(rifsc_hw.cid[id], _CIDCFGR_CFEN)]_vars

\* stm32_rifsc_cid_disable has cleared the enable bit of a RISUP that was
\* filtered in semaphore mode.
C31_Witness ==
    /\ fw = "rifsc_api"
    /\ rifsc_call.op = "cid_disable"
    /\ ~rifsc_call.hw_same
    /\ ~CfenOf(rifsc_hw, rifsc_call.id)
    /\ BitAnd(rifsc_hw.cid[rifsc_call.id], _CIDCFGR_SEMEN) # 0

\* C32: after the resume callback returned success, compartment 1 holds the
\* semaphore of a RISUP listed in the device tree exactly if it held it
\* when the suspend callback ran.
C32_SemaphoresRestored ==
    (fw = "rifsc_api" /\ rifsc_call.op = "resume"
        /\ rifsc_call.res = TEE_SUCCESS)
       => \A i \in 1..Len(rifsc_pd.risup) :
             rifsc_pd.risup[i].id \in rifsc_call.cfg
                <=> HeldBy(rifsc_hw.sem[rifsc_pd.risup[i].id], RIF_CID1)

\* C36: release_access called with the query of an acquire_access that has
\* just taken the semaphore of a RISUP leaves that semaphore free.
C36_ReleaseFrees ==
    [][(ApiStep /\ rifsc_call'.op = "release_access" /\ rifsc_call'.locked)
          => ~SemTaken(rifsc_hw'.sem[rifsc_call'.id])]_vars

\* C34: stm32_rifsc_reconfigure_risup(risup_id, ...) leaves the security
\* bit, the privilege bit, the CIDCFGR and the semaphore of every RISUP
\* other than risup_id as they were.
C34_ReconfigureOnlyNamed ==
    [][(ApiStep /\ rifsc_call'.op = "reconfigure")
          => \A id \in RisupIds \ {rifsc_call'.id} :
                /\ RisupAttr(rifsc_hw', id) = RisupAttr(rifsc_hw, id)
                /\ rifsc_hw'.sem[id] = rifsc_hw.sem[id]]_vars

(***************************************************************************)
(* SpecHpdma: the HPDMA driver, stm32_hpdma.c.  The probe applies the      *)
(* device-tree configuration; the PM callback saves the registers at       *)
(* suspend and applies them again at resume; in between the power domain   *)
(* may be switched off and compartment 2 may take semaphores.              *)
(***************************************************************************)
\* The number of channels modelled (HPDMA_RIF_CHANNELS is 16).
NumHpdmaChannels == 2

HpdmaChannels == 0..(NumHpdmaChannels - 1)

RIF_CID0 == 0

_HPDMA_CIDCFGR_SCID_SHIFT == 4

_HPDMA_CIDCFGR_SEMWL_SHIFT == 16

_HPDMA_CIDCFGR_SCID_MASK == GENMASK_32(5, 4)

_HPDMA_CIDCFGR_CONF_MASK ==
    _CIDCFGR_CFEN + _CIDCFGR_SEMEN + _HPDMA_CIDCFGR_SCID_MASK
       + GENMASK_32(23, 16)

\* GENMASK_32(HPDMA_RIF_CHANNELS - 1, 0), and the part of _HPDMA_SECCFGR_MASK,
\* _HPDMA_PRIVCFGR_MASK and _HPDMA_RCFGLOCKR_MASK the modelled channels have.
HpdmaAllChannels == GENMASK_32(NumHpdmaChannels - 1, 0)

HpdmaHwReset ==
    [cid |-> [i \in HpdmaChannels |-> 0], sem |-> [i \in HpdmaChannels |-> 0],
     sec |-> 0, priv |-> 0, lock |-> 0]

\* hpdma_d->conf_data == NULL: the node has no st,protreg.
HpdmaNoConf ==
    [present |-> FALSE, cid_confs |-> [i \in HpdmaChannels |-> 0],
     sec_conf |-> 0, priv_conf |-> 0, lock_conf |-> 0, access_mask |-> 0]

\* The bit of channel i in a table word when the channel has profile k of
\* RisupProfiles (0: the channel is not listed) and the field is set.
HpdmaDtBit(k, i, field) ==
    IF k[i + 1] # 0 /\ RisupProfiles[k[i + 1]][field] THEN BIT(i) ELSE 0

\* conf_data after parse_dt for the st,protreg that gives channel i the
\* profile k[i + 1].
HpdmaConfOf(k) ==
    [present |-> TRUE,
     cid_confs |-> [i \in HpdmaChannels |->
                      IF k[i + 1] = 0 THEN 0
                      ELSE RisupProfiles[k[i + 1]].cid_attr],
     sec_conf |-> HpdmaDtBit(k, 0, "sec") + HpdmaDtBit(k, 1, "sec"),
     priv_conf |-> HpdmaDtBit(k, 0, "priv") + HpdmaDtBit(k, 1, "priv"),
     lock_conf |-> HpdmaDtBit(k, 0, "lock") + HpdmaDtBit(k, 1, "lock"),
     access_mask |-> (IF k[1] # 0 THEN BIT(0) ELSE 0)
                        + (IF k[2] # 0 THEN BIT(1) ELSE 0)]

HpdmaConfs ==
    {HpdmaNoConf} \cup {HpdmaConfOf(<<a, b>>) : a \in 0..4, b \in 0..4}

\* A write of word new to CIDCFGR(i): dropped when the channel is locked.
HpdmaWriteCid(hw, i, new) ==
    IF TestBit(hw.lock, i) THEN hw ELSE [hw EXCEPT !.cid[i] = new]

\* if (is_tdcid) io_clrbits32(CIDCFGR(i), _HPDMA_CIDCFGR_CONF_MASK)
HpdmaClearCid(hw, is_tdcid, i) ==
    IF is_tdcid
    THEN HpdmaWriteCid(hw, i, BitClr(hw.cid[i], _HPDMA_CIDCFGR_CONF_MASK))
    ELSE hw

\* The registers and the result after a semaphore call on channel i
\* returned s.
HpdmaSemDone(hw, i, s) == [hw |-> [hw EXCEPT !.sem[i] = s.reg], res |-> s.res]

\* First loop, channel i: acquire when the channel reads in semaphore mode.
HpdmaAcquireChannel(hw, i) ==
    IF SEM_MODE_INCORRECT(hw.cid[i]) THEN [hw |-> hw, res |-> TEE_SUCCESS]
    ELSE HpdmaSemDone(hw, i,
             stm32_rif_acquire_semaphore(hw.sem[i], HPDMA_NB_MAX_CID_SUPPORTED,
                                         SEM_EN_AND_OK(hw.cid[i], RIF_CID1)))

HpdmaLoop1Round(prev, conf, is_tdcid, i) ==
    IF prev.res # TEE_SUCCESS \/ ~TestBit(conf.access_mask, i) THEN prev
    ELSE HpdmaAcquireChannel(HpdmaClearCid(prev.hw, is_tdcid, i), i)

RECURSIVE HpdmaLoop1(_, _, _, _)
HpdmaLoop1(hw, conf, is_tdcid, n) ==
    IF n = 0 THEN [hw |-> hw, res |-> TEE_SUCCESS]
    ELSE HpdmaLoop1Round(HpdmaLoop1(hw, conf, is_tdcid, n - 1), conf,
                         is_tdcid, n - 1)

\* "Security and privilege RIF configuration": the two io_clrsetbits32.
HpdmaSecPriv(hw, conf) ==
    [hw EXCEPT
        !.priv = HwLockedWordWrite(
                     @, ClrSetBits(@, BitAnd(HpdmaAllChannels, conf.access_mask),
                                   conf.priv_conf), hw.lock),
        !.sec = HwLockedWordWrite(
                    @, ClrSetBits(@, BitAnd(HpdmaAllChannels, conf.access_mask),
                                  conf.sec_conf), hw.lock)]

\* The erratum test of the second loop: the channel could carry CID0.
HpdmaErrataHit(errata, cid_conf) ==
    /\ errata
    /\ \/ BitAnd(cid_conf, _CIDCFGR_CFEN) = 0
       \/ /\ BitAnd(cid_conf, _CIDCFGR_SEMEN) = 0
          /\ BitAnd(cid_conf, _HPDMA_CIDCFGR_SCID_MASK)
                \div BIT(_HPDMA_CIDCFGR_SCID_SHIFT) = RIF_CID0
       \/ /\ BitAnd(cid_conf, _CIDCFGR_SEMEN) # 0
          /\ BitAnd(cid_conf, BIT(_HPDMA_CIDCFGR_SEMWL_SHIFT)) # 0

\* Second loop, channel i after the CIDCFGR write: release when the channel
\* is not in semaphore mode or not secure, acquire otherwise; a failure is
\* returned as TEE_ERROR_ACCESS_DENIED.
HpdmaSettleChannel(hw, i, keep) ==
    IF SEM_MODE_INCORRECT(hw.cid[i]) \/ ~TestBit(hw.sec, i)
    THEN HpdmaSemDone(hw, i,
             stm32_rif_release_semaphore(hw.sem[i], HPDMA_NB_MAX_CID_SUPPORTED,
                                         keep))
    ELSE HpdmaSemDone(hw, i,
             stm32_rif_acquire_semaphore(hw.sem[i], HPDMA_NB_MAX_CID_SUPPORTED,
                                         SEM_EN_AND_OK(hw.cid[i], RIF_CID1)))

HpdmaDenied(r) ==
    [r EXCEPT !.res = IF @ # TEE_SUCCESS THEN TEE_ERROR_ACCESS_DENIED ELSE @]

HpdmaLoop2Round(prev, d, keep, i) ==
    IF prev.res # TEE_SUCCESS \/ ~TestBit(d.conf.access_mask, i) THEN prev
    ELSE IF HpdmaErrataHit(d.errata, d.conf.cid_confs[i]) /\ ~d.insecure
    THEN [hw |-> prev.hw, res |-> "panic"]
    ELSE HpdmaDenied(HpdmaSettleChannel(
             HpdmaWriteCid(prev.hw, i,
                           ClrSetBits(prev.hw.cid[i], _HPDMA_CIDCFGR_CONF_MASK,
                                      d.conf.cid_confs[i])),
             i, keep))

RECURSIVE HpdmaLoop2(_, _, _, _)
HpdmaLoop2(hw, d, keep, n) ==
    IF n = 0 THEN [hw |-> hw, res |-> TEE_SUCCESS]
    ELSE HpdmaLoop2Round(HpdmaLoop2(hw, d, keep, n - 1), d, keep, n - 1)

\* io_clrsetbits32(RCFGLOCKR, _HPDMA_RCFGLOCKR_MASK, lock_conf[0]): a lock
\* bit stays set until the next reset.
HpdmaLock(r, conf) ==
    IF r.res # TEE_SUCCESS THEN r
    ELSE [r EXCEPT !.hw.lock = BitOr(@, conf.lock_conf)]

\* The CFG_TEE_CORE_DEBUG test at "end:".
HpdmaDebugCheck(r, d) ==
    IF r.res # TEE_SUCCESS \/ ~d.debug THEN r
    ELSE IF \/ BitAnd(r.hw.priv, d.conf.access_mask) # d.conf.priv_conf
            \/ BitAnd(r.hw.sec, d.conf.access_mask) # d.conf.sec_conf
    THEN [r EXCEPT !.res = "panic"]
    ELSE r

\* apply_rif_config from the security and privilege writes on; r is the
\* outcome of the first loop.
HpdmaAfterLoop1(r, d, is_tdcid, keep) ==
    IF r.res # TEE_SUCCESS THEN r
    ELSE IF ~is_tdcid
    THEN HpdmaDebugCheck([hw |-> HpdmaSecPriv(r.hw, d.conf), res |-> TEE_SUCCESS], d)
    ELSE HpdmaDebugCheck(
             HpdmaLock(HpdmaLoop2(HpdmaSecPriv(r.hw, d.conf), d, keep,
                                  NumHpdmaChannels),
                       d.conf),
             d)

\* apply_rif_config(hpdma_d, is_tdcid): [hw, res]; d is hpdma_pdata with the
\* build options, keep the hardware's choice for the holder field of a
\* released semaphore.
apply_rif_config(hw, d, is_tdcid, keep) ==
    IF ~d.conf.present THEN [hw |-> hw, res |-> TEE_SUCCESS]
    ELSE HpdmaAfterLoop1(HpdmaLoop1(hw, d.conf, is_tdcid, NumHpdmaChannels),
                         d, is_tdcid, keep)

\* stm32_hpdma_pm_suspend: conf_data read from the registers.
stm32_hpdma_pm_suspend(hw) ==
    [present |-> TRUE,
     cid_confs |-> [i \in HpdmaChannels |->
                      BitAnd(hw.cid[i], _HPDMA_CIDCFGR_CONF_MASK)],
     priv_conf |-> BitAnd(hw.priv, HpdmaAllChannels),
     sec_conf |-> BitAnd(hw.sec, HpdmaAllChannels),
     lock_conf |-> BitAnd(hw.lock, HpdmaAllChannels),
     access_mask |-> HpdmaAllChannels]

\* The registers OP-TEE finds at boot: at reset when it is the TDCID,
\* otherwise as the TDCID programmed them.
HpdmaBootHws(is_tdcid) ==
    IF is_tdcid THEN {HpdmaHwReset}
    ELSE {HpdmaHwReset,
          [HpdmaHwReset EXCEPT !.cid = [i \in HpdmaChannels |-> CidSem12]]}

NoHpdmaCall == [op |-> "none", res |-> "none", context |-> FALSE]

HpdmaInit ==
    /\ SemIdle /\ ChkIdle /\ RifscIdle /\ RisafIdle /\ BndIdle /\ EtzpcIdle
    /\ fw = "hpdma" /\ PwrIdle /\ PrsIdle /\ RprocIdle
    /\ \E conf \in HpdmaConfs, errata \in BOOLEAN, insecure \in BOOLEAN,
          debug \in BOOLEAN, is_tdcid \in BOOLEAN :
          \E hw \in HpdmaBootHws(is_tdcid) :
             hpdma = [st |-> "boot", hw |-> hw, conf |-> conf,
                      errata |-> errata, insecure |-> insecure,
                      debug |-> debug, is_tdcid |-> is_tdcid,
                      snap |-> hw, lost |-> FALSE, last |-> NoHpdmaCall]

notHpdma ==
    <<semVars, chk, rifscVars, risafVars, bnd, etzpcVars, fw, pwr, prs, rproc>>

\* stm32_hpdma_probe from the call of apply_rif_config on.
HpdmaProbeReturn(r) ==
    hpdma' = [hpdma EXCEPT
                 !.hw = r.hw,
                 !.st = IF r.res # TEE_SUCCESS THEN "panic" ELSE "run",
                 !.last = [op |-> "probe", res |-> r.res, context |-> FALSE]]

HpdmaProbe ==
    /\ hpdma.st = "boot"
    /\ \E keep \in BOOLEAN :
          HpdmaProbeReturn(apply_rif_config(hpdma.hw, hpdma, hpdma.is_tdcid,
                                            keep))
    /\ UNCHANGED notHpdma

\* Compartment 2 takes the semaphore of a channel.
HpdmaOtherAcquire ==
    /\ hpdma.st \in {"run", "suspended"}
    /\ \E i \in HpdmaChannels :
          /\ ~SemTaken(hpdma.hw.sem[i])
          /\ SEM_EN_AND_OK(hpdma.hw.cid[i], 2)
          /\ hpdma' = [hpdma EXCEPT !.hw.sem[i] =
                HwSemcrWrite(@, 2, _SEMCR_MUTEX, TRUE, FALSE, FALSE)]
    /\ UNCHANGED notHpdma

\* Compartment 2 releases the semaphore it holds.
HpdmaOtherRelease ==
    /\ hpdma.st \in {"run", "suspended"}
    /\ \E i \in HpdmaChannels :
          /\ HeldBy(hpdma.hw.sem[i], 2)
          /\ hpdma' = [hpdma EXCEPT !.hw.sem[i] = 0]
    /\ UNCHANGED notHpdma

\* stm32_hpdma_pm(PM_OP_SUSPEND, pm_hint): nothing is done unless the hint
\* is a context loss and OP-TEE is the TDCID.  The record keeps the
\* registers the callback found.
HpdmaPmSuspend ==
    /\ hpdma.st = "run"
    /\ \E context \in BOOLEAN, ub \in {"abort", "stray"} :
          hpdma' =
             IF ~context \/ ~hpdma.is_tdcid
             THEN [hpdma EXCEPT !.st = "suspended", !.snap = hpdma.hw,
                      !.lost = FALSE,
                      !.last = [op |-> "suspend", res |-> TEE_SUCCESS,
                                context |-> context]]
             ELSE IF ~hpdma.conf.present
             THEN [hpdma EXCEPT
                      !.st = IF ub = "abort" THEN "abort" ELSE "suspended",
                      !.snap = hpdma.hw, !.lost = FALSE,
                      !.last = [op |-> "suspend",
                                res |-> IF ub = "abort" THEN "abort"
                                        ELSE TEE_SUCCESS,
                                context |-> TRUE]]
             ELSE [hpdma EXCEPT !.st = "suspended", !.snap = hpdma.hw,
                      !.lost = FALSE,
                      !.conf = stm32_hpdma_pm_suspend(hpdma.hw),
                      !.last = [op |-> "suspend", res |-> TEE_SUCCESS,
                                context |-> TRUE]]
    /\ UNCHANGED notHpdma

\* The power domain is switched off and on again: the registers are at
\* their reset values.  (When OP-TEE is not the TDCID the registers are the
\* TDCID's to restore.)
HpdmaPowerLoss ==
    /\ hpdma.st = "suspended"
    /\ hpdma.last.context
    /\ hpdma.is_tdcid
    /\ ~hpdma.lost
    /\ hpdma' = [hpdma EXCEPT !.hw = HpdmaHwReset, !.lost = TRUE]
    /\ UNCHANGED notHpdma

\* stm32_hpdma_pm(PM_OP_RESUME, pm_hint): stm32_hpdma_pm_resume drops the
\* result of apply_rif_config.
HpdmaPmResumeReturn(r, applied) ==
    hpdma' = [hpdma EXCEPT
                 !.hw = r.hw,
                 !.st = IF r.res = "panic" THEN "panic" ELSE "run",
                 !.last = [op |-> "resume",
                           res |-> IF r.res = "panic" THEN "panic"
                                   ELSE TEE_SUCCESS,
                           context |-> applied]]

HpdmaPmResume ==
    /\ hpdma.st = "suspended"
    /\ \E keep \in BOOLEAN :
          IF hpdma.last.context /\ hpdma.is_tdcid
          THEN HpdmaPmResumeReturn(
                   apply_rif_config(hpdma.hw, hpdma, TRUE, keep), TRUE)
          ELSE HpdmaPmResumeReturn([hw |-> hpdma.hw, res |-> TEE_SUCCESS],
                                   FALSE)
    /\ UNCHANGED notHpdma

HpdmaNext ==
    \/ HpdmaProbe
    \/ HpdmaOtherAcquire
    \/ HpdmaOtherRelease
    \/ HpdmaPmSuspend
    \/ HpdmaPowerLoss
    \/ HpdmaPmResume

SpecHpdma == HpdmaInit /\ [][HpdmaNext]_vars

\* The configuration bits of every CIDCFGR and the security, privilege and
\* lock registers are the same in h1 and h2.
HpdmaSameConfig(h1, h2) ==
    /\ \A i \in HpdmaChannels :
          BitAnd(h1.cid[i], _HPDMA_CIDCFGR_CONF_MASK)
             = BitAnd(h2.cid[i], _HPDMA_CIDCFGR_CONF_MASK)
    /\ h1.sec = h2.sec /\ h1.priv = h2.priv /\ h1.lock = h2.lock

\* The resume callback ran after a suspend with context loss, OP-TEE being
\* the TDCID, and the registers had been lost.
HpdmaResumedAfterLoss ==
    /\ fw = "hpdma"
    /\ hpdma.last.op = "resume" /\ hpdma.last.context
    /\ hpdma.lost

\* C33: the PM callback never aborts, and after a suspend, a loss of the
\* registers and a resume, OP-TEE being the TDCID, the callback has
\* completed and the CIDCFGR configuration bits, the security, privilege
\* and lock registers are as at suspend.
C33_PmRoundTrip ==
    /\ fw = "hpdma" => hpdma.st # "abort"
    /\ HpdmaResumedAfterLoss
          => /\ hpdma.st = "run"
             /\ HpdmaSameConfig(hpdma.hw, hpdma.snap)

\* The last call was a set_memory_conf that reached risaf_configure_region
\* and has returned, asking for encryption on an instance without
\* encryption support or on a region that is not secure.
RisafRtBadEncryption ==
    /\ risaf_drv.op = "reconfigure"
    /\ risaf_drv.at = "idle"
    /\ risaf_drv.a # RisafNoArgs
    /\ BitAnd(risaf_drv.a.cfg, _RISAF_REG_CFGR_ENC) # 0
    /\ \/ ~risaf_dt.pd.enc_supported
       \/ BitAnd(risaf_drv.a.cfg, _RISAF_REG_CFGR_SEC) # _RISAF_REG_CFGR_SEC

\* C35: risaf_configure_region returns an error for such a request and the
\* registers of the region are as they were before the call.
C35_RejectedNotWritten ==
    RisafRtBadEncryption
       => /\ risaf_drv.res # TEE_SUCCESS
          /\ risaf_hw[risaf_drv.a.id] = risaf_drv.hw0[risaf_drv.a.id]

(***************************************************************************)
(* SpecRisafOps: one probed RISAF instance with its clock.  The firewall   *)
(* acquire_memory_access and check_memory_access calls, the exported       *)
(* stm32_risaf_reconfigure and the PM callback; the registers include the  *)
(* four words below the first region, where the offsets of region 0 fall.  *)
(***************************************************************************)
_RISAF_REG_BASE == 64

_RISAF_REG_SIZE == 64

\* _RISAF_REG(n), in unsigned 32-bit arithmetic: 0 for n = 0.
_RISAF_REG(n) == (_RISAF_REG_BASE + (n - 1) * _RISAF_REG_SIZE) % (2 ^ 30)

_RISAF_REG_CFGR_PRIVC_MASK == GENMASK_32(23, 16)

_RISAF_REG_CIDCFGR_RDENC_MASK == GENMASK_32(7, 0)

_RISAF_REG_CIDCFGR_WRENC_MASK == GENMASK_32(23, 16)

\* The registers hw with the words at _RISAF_REG(0) .. _RISAF_REG(0) + 0xC
\* (the control and status registers of the instance) as entry 0.
RisafHwFromBase(hw) ==
    [id \in 0..(RisafPdata.max_base_regions - 1) |->
        IF id = 0 THEN [cfgr |-> 1, startr |-> 0, endr |-> 0, cidcfgr |-> 0]
        ELSE hw[id]]

\* arg_count and the region id pass the tests made before clk_enable.
RisafArgsOk(pd, arg_count, arg) ==
    /\ arg_count = 1
    /\ _RISAF_GET_REGION_ID(arg) # 0
    /\ _RISAF_GET_REGION_ID(arg) < pd.nregions

\* stm32_risaf_check_access past the argument checks, on the registers cfgr
\* and cidcfgr of the region, for the query word q_config.
RisafCheckDenied(cfgr, cidcfgr, tdcid, q_config) ==
    \/ BitAnd(cfgr, _RISAF_REG_CFGR_BREN) = 0 /\ ~tdcid
    \/ /\ BitAnd(_RISAF_GET_REGION_CFG(q_config), _RISAF_REG_CFGR_SEC) # 0
       /\ BitAnd(cfgr, _RISAF_REG_CFGR_SEC) = 0
    \/ BitAnd(_RISAF_GET_REGION_CFG(q_config), _RISAF_REG_CFGR_PRIVC_MASK)
          # BitAnd(cfgr, BitAnd(_RISAF_GET_REGION_CFG(q_config),
                                _RISAF_REG_CFGR_PRIVC_MASK))
    \/ BitAnd(_RISAF_GET_REGION_CID_CFG(q_config), _RISAF_REG_CIDCFGR_RDENC_MASK)
          # BitAnd(cidcfgr, BitAnd(_RISAF_GET_REGION_CID_CFG(q_config),
                                   _RISAF_REG_CIDCFGR_RDENC_MASK))
    \/ BitAnd(_RISAF_GET_REGION_CID_CFG(q_config), _RISAF_REG_CIDCFGR_WRENC_MASK)
          # BitAnd(cidcfgr, BitAnd(_RISAF_GET_REGION_CID_CFG(q_config),
                                   _RISAF_REG_CIDCFGR_WRENC_MASK))

\* stm32_risaf_check_access: the result
stm32_risaf_check_access(hw, pd, tdcid, arg_count, arg) ==
    IF ~RisafArgsOk(pd, arg_count, arg) THEN TEE_ERROR_BAD_PARAMETERS
    ELSE IF RisafCheckDenied(hw[_RISAF_GET_REGION_ID(arg)].cfgr,
                             hw[_RISAF_GET_REGION_ID(arg)].cidcfgr, tdcid, arg)
    THEN TEE_ERROR_ACCESS_DENIED
    ELSE TEE_SUCCESS

\* The clock enable count after an access call that found it at clk:
\* clk_enable is reached when the arguments pass, returns clk_res, and is
\* followed by clk_disable on the success return only.
RisafAccessClock(clk, args_ok, clk_res, res) ==
    IF args_ok /\ clk_res = TEE_SUCCESS /\ res = TEE_ERROR_ACCESS_DENIED
    THEN clk + 1
    ELSE clk

\* What the access call returns: the error of clk_enable if it fails.
RisafAccessResult(args_ok, clk_res, res) ==
    IF args_ok /\ clk_res # TEE_SUCCESS THEN clk_res ELSE res

\* stm32_risaf_reconfigure from entry i on, for the instance whose base is
\* passed: [hw, res, written], res "panic" when risaf_configure_region
\* fails, written the region ids written to.
RECURSIVE stm32_risaf_reconfigure(_, _, _, _, _)
stm32_risaf_reconfigure(hw, pd, regions, i, written) ==
    IF i > Len(regions)
    THEN [hw |-> hw, res |-> TEE_SUCCESS, written |-> written]
    ELSE IF RisafConfigureResult(pd, _RISAF_GET_REGION_CFG(regions[i].cfg))
            # TEE_SUCCESS
    THEN [hw |-> risaf_configure_region(
                    hw, pd, _RISAF_GET_REGION_ID(regions[i].cfg),
                    _RISAF_GET_REGION_CFG(regions[i].cfg),
                    _RISAF_GET_REGION_CID_CFG(regions[i].cfg),
                    regions[i].addr,
                    UPtr(regions[i].addr + regions[i].len
                         + 2 ^ AddrBits - 1)).hw,
          res |-> "panic",
          written |-> written \cup {_RISAF_GET_REGION_ID(regions[i].cfg)}]
    ELSE stm32_risaf_reconfigure(
             risaf_configure_region(
                 hw, pd, _RISAF_GET_REGION_ID(regions[i].cfg),
                 _RISAF_GET_REGION_CFG(regions[i].cfg),
                 _RISAF_GET_REGION_CID_CFG(regions[i].cfg),
                 regions[i].addr,
                 UPtr(regions[i].addr + regions[i].len + 2 ^ AddrBits - 1)).hw,
             pd, regions, i + 1,
             written \cup {_RISAF_GET_REGION_ID(regions[i].cfg)})

\* check_memory_access queries: [arg_count, arg]
RisafOpsCheckQueries ==
    {[arg_count |-> 1, arg |-> RisafRtCell(id, kind)] :
        id \in 0..NRegions, kind \in {"secure", "enc", "nonsec", "ronly"}}
    \cup {[arg_count |-> 0, arg |-> 0]}

\* The instance after its probe, as in RisafRtInit, OP-TEE being the TDCID
\* or not, the clock enable count at 0.
RisafOpsInit ==
    /\ SemIdle /\ ChkIdle /\ RifscIdle /\ BndIdle /\ EtzpcIdle
    /\ fw = "risaf_ops" /\ PwrIdle /\ PrsIdle /\ HpdmaIdle /\ RprocIdle
    /\ \E enc \in BOOLEAN, tdcid \in BOOLEAN :
        /\ risaf_dt = [is_tdcid |-> tdcid, pd |-> RisafRtPdata(enc)]
        /\ \E t \in RisafRtTables(enc) :
            /\ risaf_hw = RisafHwFromBase(
                              stm32_risaf_pm_resume(RisafHwReset,
                                                    RisafRtPdata(enc), t, 1,
                                                    {}).hw)
            /\ risaf_drv = [regions |-> t, pm |-> "run", op |-> "none",
                            res |-> "none", q |-> 0, hw0 |-> risaf_hw,
                            written |-> {}, clk |-> 0, n |-> 0]

RisafOpsReady == risaf_drv.pm = "run" /\ risaf_drv.n < MaxCalls

\* firewall acquire_memory_access
RisafOpsAcquireAccess ==
    /\ RisafOpsReady
    /\ \E q \in RisafRtQueries, clk_res \in {TEE_SUCCESS, TEE_ERROR_GENERIC} :
        risaf_drv' = [risaf_drv EXCEPT
            !.op = "acquire_access", !.q = q, !.n = @ + 1,
            !.hw0 = risaf_hw, !.written = {},
            !.res = RisafAccessResult(
                        RisafArgsOk(risaf_dt.pd, q.arg_count, q.arg), clk_res,
                        stm32_risaf_acquire_access(
                            risaf_hw, risaf_dt.pd, risaf_dt.is_tdcid,
                            q.arg_count, q.arg, q.read, q.write)),
            !.clk = RisafAccessClock(
                        @, RisafArgsOk(risaf_dt.pd, q.arg_count, q.arg),
                        clk_res,
                        stm32_risaf_acquire_access(
                            risaf_hw, risaf_dt.pd, risaf_dt.is_tdcid,
                            q.arg_count, q.arg, q.read, q.write))]
    /\ UNCHANGED <<risaf_dt, risaf_hw, notRisaf>>

\* firewall check_memory_access
RisafOpsCheckAccess ==
    /\ RisafOpsReady
    /\ \E q \in RisafOpsCheckQueries,
          clk_res \in {TEE_SUCCESS, TEE_ERROR_GENERIC} :
        risaf_drv' = [risaf_drv EXCEPT
            !.op = "check_access", !.q = q, !.n = @ + 1,
            !.hw0 = risaf_hw, !.written = {},
            !.res = RisafAccessResult(
                        RisafArgsOk(risaf_dt.pd, q.arg_count, q.arg), clk_res,
                        stm32_risaf_check_access(
                            risaf_hw, risaf_dt.pd, risaf_dt.is_tdcid,
                            q.arg_count, q.arg)),
            !.clk = RisafAccessClock(
                        @, RisafArgsOk(risaf_dt.pd, q.arg_count, q.arg),
                        clk_res,
                        stm32_risaf_check_access(
                            risaf_hw, risaf_dt.pd, risaf_dt.is_tdcid,
                            q.arg_count, q.arg))]
    /\ UNCHANGED <<risaf_dt, risaf_hw, notRisaf>>

\* A re-application of the region table returned r = [hw, res, written].
RisafOpsApplied(op, r) ==
    /\ risaf_hw' = r.hw
    /\ risaf_drv' = [risaf_drv EXCEPT
            !.op = op, !.q = 0, !.n = @ + 1, !.pm = "run", !.hw0 = risaf_hw,
            !.res = r.res, !.written = r.written]
    /\ UNCHANGED <<risaf_dt, notRisaf>>

\* stm32_risaf_reconfigure(base): base is the address of this instance or
\* of no instance; the clock is enabled for the loop.
RisafOpsReconfigure ==
    /\ RisafOpsReady
    /\ \E found \in BOOLEAN :
          IF found
          THEN RisafOpsApplied("reconfigure",
                   stm32_risaf_reconfigure(risaf_hw, risaf_dt.pd,
                                           risaf_drv.regions, 1, {}))
          ELSE RisafOpsApplied("reconfigure",
                   [hw |-> risaf_hw, res |-> TEE_SUCCESS, written |-> {}])

\* stm32_risaf_pm(PM_OP_SUSPEND)
RisafOpsSuspend ==
    /\ RisafOpsReady
    /\ risaf_drv' = [risaf_drv EXCEPT
            !.regions = [i \in DOMAIN @ |->
                           IF _RISAF_GET_REGION_ID(@[i].cfg) = 0 THEN @[i]
                           ELSE RisafSuspendRegion(
                                    @[i],
                                    risaf_hw[_RISAF_GET_REGION_ID(@[i].cfg)],
                                    risaf_dt.pd)],
            !.pm = "suspended", !.op = "suspend", !.q = 0,
            !.res = TEE_SUCCESS, !.written = {}]
    /\ UNCHANGED <<risaf_dt, risaf_hw, notRisaf>>

\* stm32_risaf_pm(PM_OP_RESUME)
RisafOpsResume ==
    /\ risaf_drv.pm = "suspended"
    /\ RisafOpsApplied("resume",
           stm32_risaf_pm_resume(risaf_hw, risaf_dt.pd, risaf_drv.regions, 1,
                                 {}))

RisafOpsNext ==
    \/ RisafOpsAcquireAccess
    \/ RisafOpsCheckAccess
    \/ RisafOpsReconfigure
    \/ RisafOpsSuspend
    \/ RisafOpsResume

SpecRisafOps == RisafOpsInit /\ [][RisafOpsNext]_vars

\* C38: every check_access and acquire_access call leaves the clock enable
\* count as it found it.
C38_ClockBalanced ==
    [][risaf_drv'.op \in {"acquire_access", "check_access"}
          => risaf_drv'.clk = risaf_drv.clk]_vars

\* C39: a re-application of the region table (stm32_risaf_reconfigure, PM
\* resume) of a table that has an entry of region id 0 writes nothing at
\* the offsets _RISAF_REG(0) gives, and the words there are unchanged.
C39_RegionZeroSkipped ==
    (fw = "risaf_ops" /\ risaf_drv.op \in {"reconfigure", "resume"})
       => /\ \A id \in risaf_drv.written : _RISAF_REG(id) # _RISAF_REG(0)
          /\ risaf_hw[0] = risaf_drv.hw0[0]

(***************************************************************************)
(* SpecRproc: one remote processor instance with its memory regions; the   *)
(* PTA commands get-memory, release-memory and clean.  m_get_cnt is a      *)
(* uint32_t, kept as its two 16-bit halves [hi, lo].                       *)
(***************************************************************************)
NRprocRegions == 2

MaxRprocCalls == 4

HalfWord == 65536

U32Zero == [hi |-> 0, lo |-> 0]

\* c + 1 and c - 1 of a uint32_t
U32Inc(c) ==
    IF c.lo = HalfWord - 1
    THEN [hi |-> (c.hi + 1) % HalfWord, lo |-> 0]
    ELSE [hi |-> c.hi, lo |-> c.lo + 1]

U32Dec(c) ==
    IF c.lo = 0
    THEN [hi |-> (c.hi + HalfWord - 1) % HalfWord, lo |-> HalfWord - 1]
    ELSE [hi |-> c.hi, lo |-> c.lo - 1]

U32GtOne(c) == c.hi > 0 \/ c.lo > 1

\* The regions after a loop of firewall_set_memory_alternate_conf(to) whose
\* call for region fail returns an error (fail = 0: none does).
RprocApplyConf(conf, to, fail) ==
    [i \in DOMAIN conf |-> IF fail = 0 \/ i < fail THEN to ELSE conf[i]]

RprocApplyRes(fail) == IF fail = 0 THEN TEE_SUCCESS ELSE TEE_ERROR_GENERIC

\* stm32_rproc_release_mems_access on m = [m_get_cnt, conf]:
\* [m_get_cnt, conf, res]
stm32_rproc_release_mems_access(m, fail) ==
    IF U32Dec(m.m_get_cnt) # U32Zero
    THEN [m_get_cnt |-> U32Dec(m.m_get_cnt), conf |-> m.conf,
          res |-> TEE_SUCCESS]
    ELSE [m_get_cnt |-> U32Dec(m.m_get_cnt),
          conf |-> RprocApplyConf(m.conf, "default", fail),
          res |-> RprocApplyRes(fail)]

\* The err label of stm32_rproc_get_mems_access: rl is what
\* stm32_rproc_release_mems_access returned, res the error of the loop.
RprocGetErr(rl, res) ==
    [rl EXCEPT !.res = IF rl.res # TEE_SUCCESS THEN "panic" ELSE res]

\* stm32_rproc_get_mems_access on m = [m_get_cnt, conf]; the firewall call
\* for region fail of the loop fails, that for region fail_rel of the
\* release at the err label.
stm32_rproc_get_mems_access(m, fail, fail_rel) ==
    IF U32GtOne(U32Inc(m.m_get_cnt))
    THEN [m_get_cnt |-> U32Inc(m.m_get_cnt), conf |-> m.conf,
          res |-> TEE_SUCCESS]
    ELSE IF fail = 0
    THEN [m_get_cnt |-> U32Inc(m.m_get_cnt),
          conf |-> RprocApplyConf(m.conf, "load", 0), res |-> TEE_SUCCESS]
    ELSE RprocGetErr(
             stm32_rproc_release_mems_access(
                 [m_get_cnt |-> U32Inc(m.m_get_cnt),
                  conf |-> RprocApplyConf(m.conf, "load", fail)], fail_rel),
             RprocApplyRes(fail))

\* stm32_rproc_clean after its stm32_rproc_release_mems_access returned rl,
\* the map/memset/unmap loop having ended with map_res.
RprocCleanReleased(rl, map_res) ==
    [rl EXCEPT !.res = IF rl.res # TEE_SUCCESS THEN "panic" ELSE map_res]

\* stm32_rproc_clean after stm32_rproc_get_mems_access returned g.
RprocCleanGot(g, map_res, fail_rel) ==
    IF g.res # TEE_SUCCESS THEN g
    ELSE RprocCleanReleased(
             stm32_rproc_release_mems_access(
                 [m_get_cnt |-> g.m_get_cnt, conf |-> g.conf], fail_rel),
             map_res)

\* stm32_rproc_clean for a known processor
stm32_rproc_clean(m, fail, fail_err, map_res, fail_rel) ==
    RprocCleanGot(stm32_rproc_get_mems_access(m, fail, fail_err), map_res,
                  fail_rel)

RprocFails == 0..NRprocRegions

\* rproc_id values of a request: the probed processor and another.
RprocIds == {0, 1}

RprocInit ==
    /\ SemIdle /\ ChkIdle /\ RifscIdle /\ RisafIdle /\ BndIdle /\ EtzpcIdle
    /\ fw = "rproc" /\ PwrIdle /\ PrsIdle /\ HpdmaIdle
    /\ \E ta \in {"REMOTEPROC_OFF", "REMOTEPROC_ON"} :
          rproc = [m_get_cnt |-> U32Zero,
                   conf |-> [i \in 1..NRprocRegions |-> "default"],
                   rproc_ta_state |-> ta, st |-> "run", op |-> "none",
                   res |-> "none", out |-> 0, failed |-> FALSE, n |-> 0]

notRproc ==
    <<semVars, chk, rifscVars, risafVars, bnd, etzpcVars, fw, pwr, prs, hpdma>>

RprocReady == rproc.st = "run" /\ rproc.n < MaxRprocCalls

\* The PTA command op is refused before it reaches the driver, with res.
RprocRefused(op, res) ==
    /\ rproc' = [rproc EXCEPT !.op = op, !.res = res, !.n = @ + 1]
    /\ UNCHANGED notRproc

\* What the PTA and stm32_rproc_get(rproc_id) let through.
RprocGate(id) ==
    IF rproc.rproc_ta_state # "REMOTEPROC_OFF" THEN "TEE_ERROR_BAD_STATE"
    ELSE IF id # 0 THEN TEE_ERROR_BAD_PARAMETERS
    ELSE TEE_SUCCESS

\* The driver call of the command op returned r = [m_get_cnt, conf, res];
\* out is the number of successful gets not yet released afterwards.
RprocReturned(op, r, out, failed) ==
    /\ rproc' = [rproc EXCEPT
           !.m_get_cnt = r.m_get_cnt, !.conf = r.conf, !.op = op,
           !.res = r.res, !.n = @ + 1, !.out = out,
           !.failed = @ \/ failed,
           !.st = IF r.res = "panic" THEN "panic" ELSE "run"]
    /\ UNCHANGED notRproc

\* rproc_pta_get_mem -> stm32_rproc_get_mem
RprocGetMem ==
    /\ RprocReady
    /\ \E id \in RprocIds, fail \in RprocFails, fail_err \in RprocFails :
          IF RprocGate(id) # TEE_SUCCESS
          THEN RprocRefused("get_mem", RprocGate(id))
          ELSE RprocReturned(
                   "get_mem",
                   stm32_rproc_get_mems_access(rproc, fail, fail_err),
                   IF stm32_rproc_get_mems_access(rproc, fail,
                                                  fail_err).res = TEE_SUCCESS
                   THEN rproc.out + 1 ELSE rproc.out,
                   stm32_rproc_get_mems_access(rproc, fail,
                                               fail_err).res # TEE_SUCCESS)

\* rproc_pta_release_mem -> stm32_rproc_release_mem
RprocReleaseMem ==
    /\ RprocReady
    /\ \E id \in RprocIds, fail \in RprocFails :
          IF RprocGate(id) # TEE_SUCCESS
          THEN RprocRefused("release_mem", RprocGate(id))
          ELSE RprocReturned(
                   "release_mem",
                   stm32_rproc_release_mems_access(rproc, fail),
                   IF rproc.out > 0 THEN rproc.out - 1 ELSE 0,
                   stm32_rproc_release_mems_access(rproc, fail).res
                      # TEE_SUCCESS)

\* rproc_pta_clean -> stm32_rproc_clean
RprocClean ==
    /\ RprocReady
    /\ \E id \in RprocIds, fail \in RprocFails, fail_err \in RprocFails,
          map_res \in {TEE_SUCCESS, TEE_ERROR_GENERIC},
          fail_rel \in RprocFails :
          IF RprocGate(id) # TEE_SUCCESS
          THEN RprocRefused("clean", RprocGate(id))
          ELSE RprocReturned(
                   "clean",
                   stm32_rproc_clean(rproc, fail, fail_err, map_res,
                                     fail_rel),
                   rproc.out,
                   fail # 0 \/ fail_rel # 0 \/ map_res # TEE_SUCCESS)

RprocNext ==
    \/ RprocGetMem
    \/ RprocReleaseMem
    \/ RprocClean

SpecRproc == RprocInit /\ [][RprocNext]_vars

\* C37: after any sequence of get-memory, release-memory and clean requests
\* in which no firewall or mapping call failed, the regions carry the load
\* configuration exactly while a successful get is not yet released, and
\* the default configuration otherwise.
C37_LoadWhileHeld ==
    (fw = "rproc" /\ rproc.st = "run" /\ ~rproc.failed)
       => \A i \in 1..NRprocRegions :
             rproc.conf[i] = IF rproc.out > 0 THEN "load" ELSE "default"
====
